---- MODULE Spec2Model ----
(***************************************************************************)
(* A model of the micromouse simulator core: the numeric maze file codec   *)
(* (MazeFileUtilities), the kinematic state of the Mouse with its update   *)
(* mutex, and the interface-type guard of MouseInterface.                  *)
(***************************************************************************)
EXTENDS Integers, Sequences, FiniteSets, TLC

\* ------------------------------------------------------------------------
\* Bounds of the exploration.
\* ------------------------------------------------------------------------

\* Largest x and y coordinate of a maze tile or of a record of a file.
MaxCoord == 1

\* Most lines of a hand-written maze file.
MaxLines == 3

\* ------------------------------------------------------------------------
\* Text: characters are one-character strings, a token and a line are
\* sequences of characters, a file is a sequence of lines.
\* ------------------------------------------------------------------------

Digits == <<"0", "1", "2", "3", "4", "5", "6", "7", "8", "9">>

DigitChars == {Digits[i] : i \in 1..Len(Digits)}

WhiteSpace == {" ", "\t"}

DigitVal(c) == (CHOOSE i \in 1..Len(Digits) : Digits[i] = c) - 1

\* operator<< of an ostream on an int: the decimal digits, most significant
\* first, with a leading minus sign for a negative value.
RECURSIVE NatToChars(_)
NatToChars(n) ==
    IF n < Len(Digits)
    THEN <<Digits[n + 1]>>
    ELSE NatToChars(n \div Len(Digits)) \o <<Digits[(n % Len(Digits)) + 1]>>

IntToChars(n) == IF n < 0 THEN <<"-">> \o NatToChars(-n) ELSE NatToChars(n)

\* SimUtilities::tokenize(line): the maximal runs of non-whitespace
\* characters of the line, in order.
RECURSIVE tokenizeFrom(_, _, _, _)
tokenizeFrom(line, i, cur, acc) ==
    IF i > Len(line)
    THEN IF cur = <<>> THEN acc ELSE Append(acc, cur)
    ELSE IF line[i] \in WhiteSpace
         THEN tokenizeFrom(line, i + 1, <<>>,
                           IF cur = <<>> THEN acc ELSE Append(acc, cur))
         ELSE tokenizeFrom(line, i + 1, Append(cur, line[i]), acc)

tokenize(line) == tokenizeFrom(line, 1, <<>>, <<>>)

\* SimUtilities::isInt(token): an optional minus sign followed by one or
\* more decimal digits and nothing else.
isInt(tok) ==
    LET body == IF tok # <<>> /\ tok[1] = "-" THEN Tail(tok) ELSE tok
    IN  /\ body # <<>>
        /\ \A i \in 1..Len(body) : body[i] \in DigitChars

\* SimUtilities::strToInt(token), for a token that isInt.
RECURSIVE CharsToNat(_)
CharsToNat(ds) ==
    IF ds = <<>>
    THEN 0
    ELSE CharsToNat(SubSeq(ds, 1, Len(ds) - 1)) * Len(Digits)
         + DigitVal(ds[Len(ds)])

strToInt(tok) == IF tok[1] = "-" THEN -CharsToNat(Tail(tok)) ELSE CharsToNat(tok)

\* ------------------------------------------------------------------------
\* Directions and tiles.
\* ------------------------------------------------------------------------

\* DIRECTIONS, the order in which the walls of a tile are written and read.
DIRECTIONS == <<"NORTH", "EAST", "SOUTH", "WEST">>

Direction == {DIRECTIONS[i] : i \in 1..Len(DIRECTIONS)}

\* SimUtilities::getDirectionIndex(direction): the 0-based place of the
\* direction in DIRECTIONS.
getDirectionIndex(d) == (CHOOSE i \in 1..Len(DIRECTIONS) : DIRECTIONS[i] = d) - 1

\* A BasicTile: its walls map, Direction -> bool.
Tile(n, e, s, w) ==
    [d \in Direction |->
        CASE d = "NORTH" -> n
          [] d = "EAST"  -> e
          [] d = "SOUTH" -> s
          [] d = "WEST"  -> w]

\* The tiles mazes are built from: over the two tiles each direction has a
\* pattern of its own (NORTH in both, EAST in the first, SOUTH in the
\* second, WEST in neither), so swapping two directions changes some tile.
TileSet == {Tile(TRUE, TRUE, FALSE, FALSE), Tile(TRUE, FALSE, TRUE, FALSE)}

\* Sequences over S of length lo..hi.
SeqsOf(S, lo, hi) == UNION {[1..n -> S] : n \in lo..hi}

\* The in-memory mazes explored: column-major grids of one to MaxCoord + 1
\* columns, each of one to MaxCoord + 1 tiles (columns may differ in
\* height), and the grid with no column.
Columns == SeqsOf(TileSet, 1, MaxCoord + 1)

Grids == SeqsOf(Columns, 0, MaxCoord + 1)

IsRectangular(maze) ==
    \A x1, x2 \in 1..Len(maze) : Len(maze[x1]) = Len(maze[x2])

\* ------------------------------------------------------------------------
\* MazeFileUtilities: the numeric maze file.
\* ------------------------------------------------------------------------

\* The walls written from the last direction of DIRECTIONS to the first.
RECURSIVE WallCharsBackwards(_, _)
WallCharsBackwards(tile, i) ==
    IF i > Len(DIRECTIONS)
    THEN <<>>
    ELSE <<" ">>
         \o IntToChars(IF tile[DIRECTIONS[Len(DIRECTIONS) + 1 - i]] THEN 1 ELSE 0)
         \o WallCharsBackwards(tile, i + 1)

\* One record as saveMazeFileNumType writes it: x, y and the four walls in
\* the order of DIRECTIONS, separated by single spaces.
RECURSIVE WallChars(_, _)
WallChars(tile, i) ==
    IF i > Len(DIRECTIONS)
    THEN <<>>
    ELSE <<" ">> \o IntToChars(IF tile[DIRECTIONS[i]] THEN 1 ELSE 0)
         \o WallChars(tile, i + 1)

\* A record written with y before x.
RecordLineYFirst(x, y, tile) ==
    IntToChars(y) \o <<" ">> \o IntToChars(x) \o WallChars(tile, 1)

RecordLine(x, y, tile) ==
    IntToChars(x) \o <<" ">> \o IntToChars(y) \o WallChars(tile, 1)

\* saveMazeFileNumType(maze, path): the lines written, for x ascending and
\* within a column y ascending.
RECURSIVE SaveColumn(_, _, _)
SaveColumn(maze, x, y) ==
    IF y >= Len(maze[x + 1])
    THEN <<>>
    ELSE <<RecordLine(x, y, maze[x + 1][y + 1])>> \o SaveColumn(maze, x, y + 1)

RECURSIVE SaveFrom(_, _)
SaveFrom(maze, x) ==
    IF x >= Len(maze)
    THEN <<>>
    ELSE SaveColumn(maze, x, 0) \o SaveFrom(maze, x + 1)

saveMazeFileNumType(maze) == SaveFrom(maze, 0)

\* The verdict of isMazeFileNumType: the value returned and the warning
\* logged (its kind, the line number it names, the position or count it
\* names).
Accepted == [ok |-> TRUE, kind |-> "none", line |-> 0, detail |-> 0]

Rejected(kind, line, detail) ==
    [ok |-> FALSE, kind |-> kind, line |-> line, detail |-> detail]

\* The first index i in 1..n with P[i], or 0.
FirstNonInt(tokens) ==
    IF \E i \in 1..Len(tokens) : ~isInt(tokens[i])
    THEN CHOOSE i \in 1..Len(tokens) :
            /\ ~isInt(tokens[i])
            /\ \A j \in 1..(i - 1) : isInt(tokens[j])
    ELSE 0

FirstBadWall(values) ==
    IF \E i \in 0..3 : values[2 + i + 1] \notin {0, 1}
    THEN CHOOSE i \in 0..3 :
            /\ values[2 + i + 1] \notin {0, 1}
            /\ \A j \in 0..(i - 1) : values[2 + j + 1] \in {0, 1}
    ELSE -1

\* The loop of isMazeFileNumType without the "&& expectedY != 0" of caseTwo.
RECURSIVE ValidateLinesAnyFirstColumn(_, _, _, _)
ValidateLinesAnyFirstColumn(file, lineNum, expectedX, expectedY) ==
    IF lineNum >= Len(file)
    THEN Accepted
    ELSE
      LET n      == lineNum + 1
          tokens == tokenize(file[n])
      IN
      IF Len(tokens) # 6
      THEN Rejected("entries", n, Len(tokens))
      ELSE IF FirstNonInt(tokens) # 0
      THEN Rejected("nonnumeric", n, FirstNonInt(tokens))
      ELSE
        LET values  == [i \in 1..6 |-> strToInt(tokens[i])]
            caseOne == values[1] = expectedX /\ values[2] = expectedY
            caseTwo == values[1] = expectedX + 1 /\ values[2] = 0
        IN
        IF ~caseOne /\ ~caseTwo
        THEN Rejected("xy", n, 0)
        ELSE IF FirstBadWall(values) # -1
        THEN Rejected("wall", n, 2 + FirstBadWall(values) + 1)
        ELSE IF caseOne
        THEN ValidateLinesAnyFirstColumn(file, n, expectedX, expectedY + 1)
        ELSE ValidateLinesAnyFirstColumn(file, n, expectedX + 1, 1)

\* The loop of isMazeFileNumType with the wall values of a line checked
\* only once the next line has been read.
RECURSIVE ValidateLinesLateWalls(_, _, _, _)
ValidateLinesLateWalls(file, lineNum, expectedX, expectedY) ==
    IF lineNum >= Len(file)
    THEN Accepted
    ELSE
      LET n      == lineNum + 1
          tokens == tokenize(file[n])
      IN
      IF Len(tokens) # 6
      THEN Rejected("entries", n, Len(tokens))
      ELSE IF FirstNonInt(tokens) # 0
      THEN Rejected("nonnumeric", n, FirstNonInt(tokens))
      ELSE
        LET values  == [i \in 1..6 |-> strToInt(tokens[i])]
            caseOne == values[1] = expectedX /\ values[2] = expectedY
            caseTwo == /\ values[1] = expectedX + 1
                       /\ values[2] = 0
                       /\ expectedY # 0
            rest    == IF caseOne
                       THEN ValidateLinesLateWalls(file, n, expectedX, expectedY + 1)
                       ELSE ValidateLinesLateWalls(file, n, expectedX + 1, 1)
        IN
        IF ~caseOne /\ ~caseTwo
        THEN Rejected("xy", n, 0)
        ELSE IF FirstBadWall(values) # -1 /\ (n = Len(file) \/ rest.ok)
        THEN Rejected("wall", n, 2 + FirstBadWall(values) + 1)
        ELSE rest

\* The while (std::getline(file, line)) loop of isMazeFileNumType, entered
\* with lineNum lines read.
RECURSIVE ValidateLines(_, _, _, _)
ValidateLines(file, lineNum, expectedX, expectedY) ==
    IF lineNum >= Len(file)
    THEN Accepted
    ELSE
      LET n      == lineNum + 1
          tokens == tokenize(file[n])
      IN
      IF Len(tokens) # 6
      THEN Rejected("entries", n, Len(tokens))
      ELSE IF FirstNonInt(tokens) # 0
      THEN Rejected("nonnumeric", n, FirstNonInt(tokens))
      ELSE
        LET values  == [i \in 1..6 |-> strToInt(tokens[i])]
            caseOne == values[1] = expectedX /\ values[2] = expectedY
            caseTwo == /\ values[1] = expectedX + 1
                       /\ values[2] = 0
                       /\ expectedY # 0
        IN
        IF ~caseOne /\ ~caseTwo
        THEN Rejected("xy", n, 0)
        ELSE IF FirstBadWall(values) # -1
        THEN Rejected("wall", n, 2 + FirstBadWall(values) + 1)
        ELSE IF caseOne
        THEN ValidateLines(file, n, expectedX, expectedY + 1)
        ELSE ValidateLines(file, n, expectedX + 1, 1)

\* isMazeFileNumType(path), for a path that names a file that opens.
isMazeFileNumType(file) ==
    IF file = <<>>
    THEN Rejected("empty", 0, 0)
    ELSE ValidateLines(file, 0, 0, 0)

isMazeFileBinType(file) == FALSE

isMazeFileMapType(file) == FALSE

\* The while (getline(file, line)) loop of loadMazeFileNumType and the
\* append of the last column after it.
RECURSIVE LoadLines(_, _, _, _)
LoadLines(file, i, maze, column) ==
    IF i > Len(file)
    THEN Append(maze, column)
    ELSE
      LET tokens == tokenize(file[i])
          tile   == [d \in Direction |->
                        1 = strToInt(tokens[2 + getDirectionIndex(d) + 1])]
          next   == Len(maze) < strToInt(tokens[1])
      IN  LoadLines(file, i + 1,
                    IF next THEN Append(maze, column) ELSE maze,
                    Append(IF next THEN <<>> ELSE column, tile))

loadMazeFileNumType(file) == LoadLines(file, 1, <<>>, <<>>)

\* SimUtilities::tokenize(line, '+'): the maximal runs of characters other
\* than the delimiter.
RECURSIVE tokenizeByFrom(_, _, _, _, _)
tokenizeByFrom(line, delimiter, i, cur, acc) ==
    IF i > Len(line)
    THEN IF cur = <<>> THEN acc ELSE Append(acc, cur)
    ELSE IF line[i] = delimiter
         THEN tokenizeByFrom(line, delimiter, i + 1, <<>>,
                             IF cur = <<>> THEN acc ELSE Append(acc, cur))
         ELSE tokenizeByFrom(line, delimiter, i + 1, Append(cur, line[i]), acc)

tokenizeBy(line, delimiter) == tokenizeByFrom(line, delimiter, 1, <<>>, <<>>)

\* std::map::insert: the wall is recorded unless the tile has one for the
\* direction already.
InsertWall(tile, direction, isWall) ==
    IF direction \in DOMAIN tile THEN tile ELSE tile @@ (direction :> isWall)

\* Lines 269-277 of loadMazeFileMapType: a line of horizontal walls, from
\* character j on. Every wall starts a tile with that wall to its NORTH and
\* is the SOUTH wall of the tile above it.
RECURSIVE MapHorizontal(_, _, _, _)
MapHorizontal(upsideDownMaze, line, j, rowsFromTop) ==
    IF j >= Len(line)
    THEN upsideDownMaze
    ELSE
      LET isWall == line[j + 1] # " "
          x      == ((j - 2) \div 4) + 1
          above  == IF 0 < rowsFromTop
                    THEN [upsideDownMaze EXCEPT ![x][rowsFromTop] =
                             InsertWall(@, "SOUTH", isWall)]
                    ELSE upsideDownMaze
      IN  MapHorizontal([above EXCEPT ![x] = Append(@, ("NORTH" :> isWall))],
                        line, j + 4, rowsFromTop)

\* Lines 282-290: a line of vertical walls, from character j on. A wall is
\* the EAST wall of the tile before it and the WEST wall of the tile after
\* it.
RECURSIVE MapVertical(_, _, _, _)
MapVertical(upsideDownMaze, line, j, rowsFromTop) ==
    IF j >= Len(line)
    THEN upsideDownMaze
    ELSE
      LET isWall == line[j + 1] # " "
          east   == IF 0 < j
                    THEN [upsideDownMaze EXCEPT ![(j - 4) \div 4 + 1][rowsFromTop + 1] =
                             InsertWall(@, "EAST", isWall)]
                    ELSE upsideDownMaze
          west   == IF j < Len(line) - 1
                    THEN [east EXCEPT ![j \div 4 + 1][rowsFromTop + 1] =
                             InsertWall(@, "WEST", isWall)]
                    ELSE east
      IN  MapVertical(west, line, j + 4, rowsFromTop)

\* The while (getline(file, line)) loop of loadMazeFileMapType.
RECURSIVE MapLines(_, _, _, _)
MapLines(file, i, upsideDownMaze, rowsFromTop) ==
    IF i > Len(file)
    THEN upsideDownMaze
    ELSE
      LET tokens  == tokenizeBy(file[i], "+")
          columns == IF upsideDownMaze = <<>>
                     THEN [x \in 1..Len(tokens) |-> <<>>]
                     ELSE upsideDownMaze
      IN  IF Len(tokens) = Len(columns)
          THEN MapLines(file, i + 1,
                        MapHorizontal(columns, file[i], 2, rowsFromTop), rowsFromTop)
          ELSE MapLines(file, i + 1,
                        MapVertical(columns, file[i], 0, rowsFromTop), rowsFromTop + 1)

\* Lines 299-311: the last row is dropped and every column is reversed.
FlipColumn(column) ==
    [y \in 1..(Len(column) - 1) |-> column[Len(column) - y]]

\* loadMazeFileMapType(path): SIM_ASSERT_TR(isMazeFileMapType(path)) comes
\* first.
loadMazeFileMapType(file) ==
    IF ~isMazeFileMapType(file)
    THEN [ok |-> FALSE, maze |-> <<>>]
    ELSE LET upsideDownMaze == MapLines(file, 1, <<>>, 0)
         IN  [ok |-> TRUE,
              maze |-> [x \in 1..Len(upsideDownMaze) |-> FlipColumn(upsideDownMaze[x])]]

\* loadMazeFileBinType(path): SIM_ASSERT_TR(false).
loadMazeFileBinType(file) == [ok |-> FALSE, maze |-> <<>>]

\* loadMaze(path): the format is sniffed in the order binary, map, numeric;
\* a file of none of them ends in SIM_ASSERT_TR(false).
loadMaze(file) ==
    IF isMazeFileBinType(file)
    THEN loadMazeFileBinType(file)
    ELSE IF isMazeFileMapType(file)
    THEN loadMazeFileMapType(file)
    ELSE IF isMazeFileNumType(file).ok
    THEN [ok |-> TRUE, maze |-> loadMazeFileNumType(file)]
    ELSE [ok |-> FALSE, maze |-> <<>>]

\* ------------------------------------------------------------------------
\* The maze files written by hand.
\* ------------------------------------------------------------------------

\* Tokens joined by single spaces.
RECURSIVE JoinTokens(_)
JoinTokens(toks) ==
    IF toks = <<>>
    THEN <<>>
    ELSE IF Len(toks) = 1
    THEN toks[1]
    ELSE toks[1] \o <<" ">> \o JoinTokens(Tail(toks))

Coords == 0..MaxCoord

\* Well-formed records, and records with one wall token that is not 0 or 1
\* or not a number.
GoodLines == {RecordLine(x, y, t) : x \in Coords, y \in Coords, t \in TileSet}

BadWallLines ==
    {JoinTokens(<<IntToChars(x), IntToChars(y), <<"1">>, <<"0">>, w, <<"1">>>>) :
        x \in Coords, y \in Coords, w \in {<<"2">>, <<"a">>}}

\* Lines that are no record of six tokens, a record whose tokens are
\* separated by more than one blank, and a record with a negative wall
\* before a number that is no wall.
OddLines ==
    { <<>>,
      JoinTokens(<<<<"0">>, <<"0">>, <<"1">>, <<"0">>, <<"0">>>>),
      JoinTokens(<<<<"0">>, <<"1">>, <<"1">>, <<"0">>, <<"0">>, <<"1">>, <<"1">>>>),
      <<"0", " ", " ", "0", "\t", "1", " ", "0", " ", "0", " ", "1", " ">>,
      JoinTokens(<<<<"0">>, <<"0">>, <<"-", "1">>, <<"1", "0">>, <<"0">>, <<"1">>>>) }

LineSet == GoodLines \cup BadWallLines \cup OddLines

\* A record given by its six numbers, tokens separated by single spaces.
NumberLine(x, y, walls) ==
    JoinTokens(<<IntToChars(x), IntToChars(y)>>
               \o [i \in 1..Len(walls) |-> IntToChars(walls[i])])

\* The walls N E S W of the four records of the two by two example file,
\* in the order of its lines.
ExampleWalls == << <<1, 0, 0, 1>>, <<1, 1, 0, 0>>, <<0, 0, 1, 1>>, <<0, 1, 1, 0>> >>

\* The two by two example file: records (0,0), (0,1), (1,0), (1,1).
ExampleFile ==
    << NumberLine(0, 0, ExampleWalls[1]), NumberLine(0, 1, ExampleWalls[2]),
       NumberLine(1, 0, ExampleWalls[3]), NumberLine(1, 1, ExampleWalls[4]) >>

\* The two by two files whose records take their walls from the example.
ExampleFiles ==
    LET W == {ExampleWalls[i] : i \in 1..Len(ExampleWalls)}
    IN  { << NumberLine(0, 0, a), NumberLine(0, 1, b),
             NumberLine(1, 0, c), NumberLine(1, 1, d) >> :
          a \in W, b \in W, c \in W, d \in W }

\* A well-formed map file of two columns of two tiles:
\*     +---+---+
\*     |       |
\*     +   +---+
\*     |   |   |
\*     +---+---+
MapFileA ==
    << <<"+", "-", "-", "-", "+", "-", "-", "-", "+">>,
       <<"|", " ", " ", " ", " ", " ", " ", " ", "|">>,
       <<"+", " ", " ", " ", "+", "-", "-", "-", "+">>,
       <<"|", " ", " ", " ", "|", " ", " ", " ", "|">>,
       <<"+", "-", "-", "-", "+", "-", "-", "-", "+">> >>

\* Another, its rows in the other order:
\*     +---+---+
\*     |   |   |
\*     +---+   +
\*     |       |
\*     +---+---+
MapFileB ==
    << <<"+", "-", "-", "-", "+", "-", "-", "-", "+">>,
       <<"|", " ", " ", " ", "|", " ", " ", " ", "|">>,
       <<"+", "-", "-", "-", "+", " ", " ", " ", "+">>,
       <<"|", " ", " ", " ", " ", " ", " ", " ", "|">>,
       <<"+", "-", "-", "-", "+", "-", "-", "-", "+">> >>

MapFiles == {MapFileA, MapFileB}

\* The files put in place whole.
WholeFiles == ExampleFiles \cup MapFiles

\* ------------------------------------------------------------------------
\* Numbers of the mouse. A double, and a quantity of the units library, is
\* a rational [n, d] in lowest terms with d > 0; a division by zero gives
\* an infinity (1/0, -1/0) or not-a-number (0/0), as IEEE arithmetic does.
\* ------------------------------------------------------------------------

Abs(i) == IF i < 0 THEN -i ELSE i

Sign(i) == IF i < 0 THEN -1 ELSE IF i > 0 THEN 1 ELSE 0

RECURSIVE GCD(_, _)
GCD(a, b) == IF b = 0 THEN a ELSE GCD(b, a % b)

Q(n, d) ==
    IF d = 0
    THEN [n |-> Sign(n), d |-> 0]
    ELSE LET g == GCD(Abs(n), Abs(d))
         IN  [n |-> (Sign(d) * n) \div g, d |-> Abs(d) \div g]

I(i) == [n |-> i, d |-> 1]

IsNaN(a) == a.d = 0 /\ a.n = 0

IsInf(a) == a.d = 0 /\ a.n # 0

RNeg(a) == [n |-> -a.n, d |-> a.d]

RAbs(a) == [n |-> Abs(a.n), d |-> a.d]

RAdd(a, b) ==
    IF IsInf(a) /\ IsInf(b)
    THEN (IF a.n = b.n THEN a ELSE Q(0, 0))
    ELSE Q(a.n * b.d + b.n * a.d, a.d * b.d)

RSub(a, b) == RAdd(a, RNeg(b))

RMul(a, b) == Q(a.n * b.n, a.d * b.d)

RDiv(a, b) == Q(a.n * b.d * (IF b.n < 0 THEN -1 ELSE 1), a.d * Abs(b.n))

\* a <= b and a < b of doubles: false when either is not-a-number.
RLe(a, b) ==
    /\ ~IsNaN(a)
    /\ ~IsNaN(b)
    /\ IF a.d = 0 \/ b.d = 0
       THEN a = b \/ (IsInf(a) /\ a.n < 0) \/ (IsInf(b) /\ b.n > 0)
       ELSE a.n * b.d <= b.n * a.d

RLt(a, b) == RLe(a, b) /\ a # b

\* std::floor of a finite double.
Floor(a) == a.n \div a.d

\* Angle::getRadiansZeroTo2pi: the angle brought into [0, 2 pi), which is
\* from zero up to four quarter turns.
getRadiansZeroTo2pi(a) == RSub(a, I(4 * Floor(RDiv(a, I(4)))))

\* An angle is a number of quarter turns. Sine and cosine are taken of
\* whole numbers of quarter turns only.
Cos(a) ==
    CASE a.d = 1 /\ a.n % 4 = 0 -> I(1)
      [] a.d = 1 /\ a.n % 4 = 1 -> I(0)
      [] a.d = 1 /\ a.n % 4 = 2 -> I(-1)
      [] a.d = 1 /\ a.n % 4 = 3 -> I(0)

Sin(a) ==
    CASE a.d = 1 /\ a.n % 4 = 0 -> I(0)
      [] a.d = 1 /\ a.n % 4 = 1 -> I(1)
      [] a.d = 1 /\ a.n % 4 = 2 -> I(0)
      [] a.d = 1 /\ a.n % 4 = 3 -> I(-1)

\* A Cartesian is a pair <<x, y>>. getTheta and getRho of a vector along an
\* axis, and of the zero vector (atan2(0, 0) = 0).
getTheta(v) ==
    CASE v[2].n = 0 /\ v[1].n >= 0 -> I(0)
      [] v[1].n = 0 /\ v[2].n > 0  -> I(1)
      [] v[2].n = 0 /\ v[1].n < 0  -> I(2)
      [] v[1].n = 0 /\ v[2].n < 0  -> I(-1)

getRho(v) ==
    CASE v[1].n = 0 -> RAbs(v[2])
      [] v[2].n = 0 -> RAbs(v[1])

VAdd(p, q) == <<RAdd(p[1], q[1]), RAdd(p[2], q[2])>>

VSub(p, q) == <<RSub(p[1], q[1]), RSub(p[2], q[2])>>

\* GeometryUtilities::translateVertex and rotateVertexAroundPoint.
translateVertex(v, delta) == VAdd(v, delta)

rotateVertexAroundPoint(v, angle, point) ==
    LET rel == VSub(v, point)
        c   == Cos(angle)
        sn  == Sin(angle)
    IN  VAdd(point, <<RSub(RMul(rel[1], c), RMul(rel[2], sn)),
                      RAdd(RMul(rel[1], sn), RMul(rel[2], c))>>)

\* DIRECTION_TO_ANGLE: EAST 0, NORTH 90, WEST 180, SOUTH 270 degrees.
DIRECTION_TO_ANGLE(d) ==
    CASE d = "EAST"  -> I(0)
      [] d = "NORTH" -> I(1)
      [] d = "WEST"  -> I(2)
      [] d = "SOUTH" -> I(3)

RECURSIVE RSum(_)
RSum(qs) == IF qs = <<>> THEN I(0) ELSE RAdd(Head(qs), RSum(Tail(qs)))

\* The largest of the magnitudes qs, found as the code finds it: from 0,
\* replaced by each magnitude that is greater.
RECURSIVE MaxMagnitude(_, _)
MaxMagnitude(qs, best) ==
    IF qs = <<>>
    THEN best
    ELSE MaxMagnitude(Tail(qs),
                      IF RLt(best, RAbs(Head(qs))) THEN RAbs(Head(qs)) ELSE best)

\* ------------------------------------------------------------------------
\* The mouse: parameters, description file, and the quantities
\* Mouse::initialize derives from them.
\* ------------------------------------------------------------------------

\* P()->wallLength() and P()->wallWidth().
wallLength == I(2)

wallWidth == I(2)

\* The wheels and the sensors of the mouse, in the order std::map iterates
\* them.
WheelOrder == <<"left", "right">>

WheelNames == {WheelOrder[i] : i \in 1..Len(WheelOrder)}

SensorOrder == <<"front">>

SensorNames == {SensorOrder[i] : i \in 1..Len(SensorOrder)}

\* The initial translation: the center of the starting tile.
InitialTranslation ==
    LET halfOfTileDistance == RDiv(RAdd(wallLength, wallWidth), I(2))
    IN  <<halfOfTileDistance, halfOfTileDistance>>

\* A point of the mouse description, given ahead and to the left of the
\* center of a mouse that faces along the x axis, placed for the initial
\* translation and rotation.
Place(ahead, left, translation, rotation) ==
    rotateVertexAroundPoint(VAdd(translation, <<I(ahead), I(left)>>),
                            rotation, translation)

\* MouseParser::getWheels for a differential drive: a wheel on either side
\* of the center, each rolling the way the mouse faces.
ParsedWheels(translation, rotation) ==
    [w \in WheelNames |->
        [ initialPosition  |-> Place(0, IF w = "left" THEN 1 ELSE -1,
                                     translation, rotation),
          initialDirection |-> rotation,
          radius           |-> I(2),
          maxAngularVelocityMagnitude |-> I(2),
          angularVelocity  |-> I(0),
          rotation         |-> I(0),
          relativeRotation |-> I(0) ]]

\* The wheels of a mouse description that gives them on the x axis through
\* the center, one to either side of it, both rolling EAST, whichever way
\* the mouse faces.
AxleWheels(translation) ==
    [w \in WheelNames |->
        [ initialPosition  |-> VAdd(translation,
                                    <<I(IF w = "left" THEN -1 ELSE 1), I(0)>>),
          initialDirection |-> DIRECTION_TO_ANGLE("EAST"),
          radius           |-> I(2),
          maxAngularVelocityMagnitude |-> I(2),
          angularVelocity  |-> I(0),
          rotation         |-> I(0),
          relativeRotation |-> I(0) ]]

\* The wheels of a mouse description that gives both on the x axis to the
\* west of the center, one behind the other, both rolling EAST.
TandemWheels(translation) ==
    [w \in WheelNames |->
        [ initialPosition  |-> VAdd(translation,
                                    <<I(IF w = "left" THEN -1 ELSE -2), I(0)>>),
          initialDirection |-> DIRECTION_TO_ANGLE("EAST"),
          radius           |-> I(2),
          maxAngularVelocityMagnitude |-> I(2),
          angularVelocity  |-> I(0),
          rotation         |-> I(0),
          relativeRotation |-> I(0) ]]

\* The mouse description files.
MouseFiles == {"differential", "axle", "tandem"}

\* MouseParser::getWheels of a mouse file.
getWheels(mouseFile, translation, rotation) ==
    CASE mouseFile = "axle"   -> AxleWheels(translation)
      [] mouseFile = "tandem" -> TandemWheels(translation)
      [] OTHER                -> ParsedWheels(translation, rotation)

\* MouseParser::getSensors: one sensor ahead of the center, looking the way
\* the mouse faces. A reading is kept as the position and direction it was
\* taken from.
ParsedSensors(translation, rotation) ==
    [sn \in SensorNames |->
        [ initialPosition  |-> Place(1, 0, translation, rotation),
          initialDirection |-> rotation,
          reading          |-> <<Place(1, 0, translation, rotation), rotation>> ]]

\* Mouse::getRatesOfChange: <<forward, radial>>.
getRatesOfChange(initialTranslation, initialRotation, wheelInitialPosition, wheelInitialDirection, wheelLinearVelocity) ==
    LET forwardRateOfChange ==
            RMul(wheelLinearVelocity,
                 Cos(RSub(initialRotation, wheelInitialDirection)))
        wheelToCenter == VSub(initialTranslation, wheelInitialPosition)
        radialRateOfChange ==
            RMul(RMul(wheelLinearVelocity,
                      Sin(RSub(getTheta(wheelToCenter), wheelInitialDirection))),
                 RDiv(I(1), getRho(wheelToCenter)))
    IN  <<forwardRateOfChange, radialRateOfChange>>

\* Mouse::getWheelSpeedAdjustmentFactors: the factors of every wheel, and
\* whether the four ASSERT_LE of every wheel held.
getWheelSpeedAdjustmentFactors(initialTranslation, initialRotation, wheels) ==
    LET ratesOfChangePairs ==
            [w \in DOMAIN wheels |->
                getRatesOfChange(
                    initialTranslation, initialRotation,
                    wheels[w].initialPosition, wheels[w].initialDirection,
                    RMul(wheels[w].maxAngularVelocityMagnitude, wheels[w].radius))]
        maxForwardRateOfChangeMagnitude ==
            MaxMagnitude([i \in 1..Len(WheelOrder) |->
                             ratesOfChangePairs[WheelOrder[i]][1]], I(0))
        maxRadialRateOfChangeMagnitude ==
            MaxMagnitude([i \in 1..Len(WheelOrder) |->
                             ratesOfChangePairs[WheelOrder[i]][2]], I(0))
        adjustmentFactors ==
            [w \in DOMAIN wheels |->
                <<RDiv(ratesOfChangePairs[w][1], maxForwardRateOfChangeMagnitude),
                  RDiv(ratesOfChangePairs[w][2], maxRadialRateOfChangeMagnitude)>>]
    IN  [ factors |-> adjustmentFactors,
          ok      |-> \A w \in DOMAIN wheels : \A k \in 1..2 :
                          /\ RLe(I(-1), adjustmentFactors[w][k])
                          /\ RLe(adjustmentFactors[w][k], I(1)) ]

\* Mouse::getCurveTurnFactors: <<A, B>>. The arc length is a quarter of a
\* circle of radius wallLength / 2 and the rotation a quarter turn, so
\* their quotient is wallLength / 2 per radian.
getCurveTurnFactors(initialTranslation, initialRotation, wheels, wheelSpeedAdjustmentFactors) ==
    LET contribution(w, k) ==
            getRatesOfChange(
                initialTranslation, initialRotation,
                wheels[w].initialPosition, wheels[w].initialDirection,
                RMul(RMul(wheels[w].maxAngularVelocityMagnitude, wheels[w].radius),
                     wheelSpeedAdjustmentFactors[w][k]))
        all == [i \in 1..(2 * Len(WheelOrder)) |->
                   contribution(WheelOrder[(i + 1) \div 2], 2 - (i % 2))]
        totalForwardRateOfChange == RSum([i \in DOMAIN all |-> all[i][1]])
        totalRadialRateOfChange  == RSum([i \in DOMAIN all |-> all[i][2]])
        B == I(1)
        A == RMul(RDiv(wallLength, I(2)),
                  RDiv(totalRadialRateOfChange, totalForwardRateOfChange))
    IN  <<A, B>>

\* ------------------------------------------------------------------------
\* State.
\* ------------------------------------------------------------------------

VARIABLES
    maze,       \* the in-memory grid handed to saveMaze
    file,       \* the lines of the maze file
    fileFrom,   \* who wrote the file: "none", "save" or "editor"
    verdict,    \* what isMazeFileNumType last returned and logged
    loaded,     \* what loadMaze returned
    mpc,        \* the step the maze file has reached
    m_initialTranslation,
    m_initialRotation,
    m_currentTranslation,
    m_currentRotation,
    m_currentGyro,
    m_elapsedSimTime,
    m_wheels,
    m_sensors,
    m_wheelSpeedAdjustmentFactors,
    m_curveTurnFactors,
    m_updateMutex,  \* "free", or the thread that holds the mutex
    halted,         \* an assertion failed and the process ended
    updateFrame,    \* the locals of Mouse::update and the line it has reached
    callers,        \* per controller thread, the frame of its setWheelSpeeds
    teleportFrame,  \* the frame of Mouse::teleport
    observed,       \* the reading thread's position in its getters
    calls,          \* calls made so far by controllers, teleporter and reader
    ticks,          \* completed calls of Mouse::update
    atLock,         \* history: the mouse when update acquired the mutex
    tickPose,       \* history: the pose lines 233-234 of update wrote
    committed,      \* history: the wheel speeds of the completed calls, in order
    options,        \* the MouseInterfaceOptions
    lastCall        \* the last MouseInterface operation and its outcome

mazeVars == <<maze, file, fileFrom, verdict, loaded, mpc>>

mouseFields ==
    <<m_initialTranslation, m_initialRotation, m_currentTranslation,
      m_currentRotation, m_currentGyro, m_elapsedSimTime, m_wheels, m_sensors,
      m_wheelSpeedAdjustmentFactors, m_curveTurnFactors, m_updateMutex, halted>>

threadVars ==
    <<updateFrame, callers, teleportFrame, observed, calls, ticks,
      atLock, tickPose, committed>>

mouseVars == <<mouseFields, threadVars>>

ifaceVars == <<options, lastCall>>

vars == <<mazeVars, mouseVars, ifaceVars>>

NoVerdict == [ok |-> FALSE, kind |-> "unset", line |-> 0, detail |-> 0]

\* No maze file is being handled.
NoMazeFile ==
    /\ maze = <<>>
    /\ file = <<>>
    /\ fileFrom = "none"
    /\ verdict = NoVerdict
    /\ loaded = <<>>
    /\ mpc = "off"

\* The threads that call setWheelSpeeds and the movement setters.
Controllers == {"c1", "c2"}

IdleUpdate ==
    [pc |-> "idle", elapsed |-> I(0), sumDx |-> I(0), sumDy |-> I(0),
     sumDr |-> I(0), i |-> 0]

IdleTeleport == [pc |-> "idle", translation |-> <<>>, rotation |-> I(0)]

IdleCaller == [pc |-> "idle", op |-> "none", wheelSpeeds |-> <<>>, i |-> 0, done |-> 0]

\* The angular velocity of every wheel.
Speeds(wheels) == [w \in DOMAIN wheels |-> wheels[w].angularVelocity]

\* The accumulated rotation of every wheel.
Rotations(wheels) == [w \in DOMAIN wheels |-> wheels[w].rotation]

\* The history kept of a tick, while no tick is under way.
NoTick == [speeds |-> <<>>, rotations |-> <<>>, translation |-> <<>>,
           rotation |-> I(0), disturbed |-> FALSE]

\* Mouse::Mouse followed by Mouse::initialize(mouseFile, initialDirection).
\* A failed ASSERT_LE of getWheelSpeedAdjustmentFactors ends the process.
initializeFrom(mouseFile, initialDirection) ==
    LET translation == InitialTranslation
        rotation    == DIRECTION_TO_ANGLE(initialDirection)
        wheels      == getWheels(mouseFile, translation, rotation)
        adjustment  == getWheelSpeedAdjustmentFactors(translation, rotation, wheels)
    IN  /\ m_initialTranslation = translation
        /\ m_currentTranslation = translation
        /\ m_initialRotation = rotation
        /\ m_currentRotation = rotation
        /\ m_wheels = wheels
        /\ m_sensors = ParsedSensors(translation, rotation)
        /\ m_wheelSpeedAdjustmentFactors = adjustment.factors
        /\ m_curveTurnFactors =
               getCurveTurnFactors(translation, rotation, wheels, adjustment.factors)
        /\ m_currentGyro = I(0)
        /\ m_elapsedSimTime = I(0)
        /\ m_updateMutex = "free"
        /\ halted = ~adjustment.ok
        /\ updateFrame = IdleUpdate
        /\ callers = [c \in Controllers |-> IdleCaller]
        /\ teleportFrame = IdleTeleport
        /\ observed = [pc |-> "idle", name |-> "", midTick |-> FALSE,
                       returned |-> <<>>]
        /\ calls = 0
        /\ ticks = 0
        /\ atLock = NoTick
        /\ tickPose = <<>>
        /\ committed = Speeds(wheels)

\* Mouse::initialize of the differential drive.
initialize(initialDirection) == initializeFrom("differential", initialDirection)

\* The MouseInterface is not in use.
NoInterface ==
    /\ options = [interfaceType |-> "DISCRETE", allowOmniscience |-> FALSE]
    /\ lastCall = [op |-> "none", outcome |-> "none"]

InitMaze ==
    /\ maze \in Grids
    /\ file = <<>>
    /\ fileFrom = "none"
    /\ verdict = NoVerdict
    /\ loaded = <<>>
    /\ mpc = "start"
    /\ initialize("NORTH")
    /\ NoInterface

\* saveMaze(maze, path, MazeFileType::NUM).
SaveMaze ==
    /\ mpc = "start"
    /\ file' = saveMazeFileNumType(maze)
    /\ fileFrom' = "save"
    /\ mpc' = "written"
    /\ UNCHANGED <<maze, verdict, loaded>>
    /\ UNCHANGED <<mouseVars, ifaceVars>>

\* A line is added to a file written by hand. Lines are added while the
\* file is accepted so far, and one more after the first offending line.
WriteLine ==
    /\ mpc \in {"start", "editing"}
    /\ maze = <<>>
    /\ Len(file) < MaxLines
    /\ \/ Len(file) <= 1
       \/ isMazeFileNumType(SubSeq(file, 1, Len(file) - 1)).ok
    /\ \E l \in LineSet : file' = Append(file, l)
    /\ fileFrom' = "editor"
    /\ mpc' = "editing"
    /\ UNCHANGED <<maze, verdict, loaded>>
    /\ UNCHANGED <<mouseVars, ifaceVars>>

\* A file is put in place whole.
CopyFile ==
    /\ mpc = "start"
    /\ maze = <<>>
    /\ \E f \in WholeFiles : file' = f
    /\ fileFrom' = "copy"
    /\ mpc' = "editing"
    /\ UNCHANGED <<maze, verdict, loaded>>
    /\ UNCHANGED <<mouseVars, ifaceVars>>

\* isMazeFile(path): binary or map or numeric.
IsMazeFile ==
    /\ mpc \in {"written", "editing"}
    /\ verdict' = isMazeFileNumType(file)
    /\ mpc' = "checked"
    /\ UNCHANGED <<maze, file, fileFrom, loaded>>
    /\ UNCHANGED <<mouseVars, ifaceVars>>

\* loadMaze(path).
LoadMaze ==
    /\ mpc \in {"written", "editing", "checked"}
    /\ verdict' = isMazeFileNumType(file)
    /\ LET got == loadMaze(file)
       IN  \/ /\ got.ok
              /\ loaded' = got.maze
              /\ mpc' = "loaded"
           \/ /\ ~got.ok
              /\ loaded' = <<>>
              /\ mpc' = "failed"
    /\ UNCHANGED <<maze, file, fileFrom>>
    /\ UNCHANGED <<mouseVars, ifaceVars>>

NextMaze == SaveMaze \/ WriteLine \/ CopyFile \/ IsMazeFile \/ LoadMaze

SpecMaze == InitMaze /\ [][NextMaze]_vars

\* ------------------------------------------------------------------------
\* The mouse: Mouse::update, one action per line that reads or writes a
\* field another thread can read or write.
\* ------------------------------------------------------------------------

\* Most calls of Mouse::update.
MaxTicks == 1

\* Most calls made by the controllers, the teleporter and the reader, and
\* most calls of MouseInterface methods.
MaxCalls == 2

\* The durations the simulation loop hands to Mouse::update.
Durations == {I(1)}

\* std::mutex::lock returns once no thread holds the mutex.
\* A lock that does not wait for the mutex.
CanLockAlways(mutex) == TRUE

CanLock(mutex) == mutex = "free"

\* The term for sumDx taken with the sine.
dxSin(forwardRate, currentRotation) == RMul(forwardRate, Sin(currentRotation))

\* The terms lines 223 and 224 add to sumDx and sumDy.
dxCos(forwardRate, currentRotation) == RMul(forwardRate, Cos(currentRotation))

dySin(forwardRate, currentRotation) == RMul(forwardRate, Sin(currentRotation))

\* The rates of change of a wheel from its angular velocity alone, the
\* radius left out.
WheelRatesOfUnitRadius(wheel) ==
    getRatesOfChange(m_initialTranslation, m_initialRotation,
                     wheel.initialPosition, wheel.initialDirection,
                     wheel.angularVelocity)

\* The rates of change of a wheel at its present angular velocity.
WheelRates(wheel) ==
    getRatesOfChange(m_initialTranslation, m_initialRotation,
                     wheel.initialPosition, wheel.initialDirection,
                     RMul(wheel.angularVelocity, wheel.radius))

\* The sum left as it is, not divided by the number of wheels.
Total(sum) == sum

\* Lines 228-230.
Average(sum) == RDiv(sum, I(Len(WheelOrder)))

\* Mouse::getCurrentSensorPositionAndDirection.
getCurrentSensorPositionAndDirection(sensor, currentTranslation, currentRotation) ==
    LET translationDelta == VSub(currentTranslation, m_initialTranslation)
        rotationDelta    == RSub(currentRotation, m_initialRotation)
    IN  <<rotateVertexAroundPoint(
              translateVertex(sensor.initialPosition, translationDelta),
              rotationDelta, currentTranslation),
          RAdd(sensor.initialDirection, rotationDelta)>>

\* Mouse::getCurrentDiscretizedTranslation.
getCurrentDiscretizedTranslation(currentTranslation) ==
    LET tileLength == RAdd(wallLength, wallWidth)
    IN  << Floor(RDiv(currentTranslation[1], tileLength)),
           Floor(RDiv(currentTranslation[2], tileLength)) >>

\* The directions a switch over dir returns: the direction of its case,
\* and any value at all when no case is taken and the function ends
\* without a return.
SwitchOverDir(dir) ==
    CASE dir = 0 -> {"EAST"}
      [] dir = 1 -> {"NORTH"}
      [] dir = 2 -> {"WEST"}
      [] dir = 3 -> {"SOUTH"}
      [] OTHER   -> {DIRECTIONS[i] : i \in 1..Len(DIRECTIONS)} \cup {"garbage"}

\* getCurrentDiscretizedRotation without the Degrees(45) it adds.
getCurrentDiscretizedRotationOfFloor(currentRotation) ==
    SwitchOverDir(Floor(RDiv(getRadiansZeroTo2pi(currentRotation),
                             getRadiansZeroTo2pi(I(1)))))

\* Mouse::getCurrentDiscretizedRotation: the directions it may return.
getCurrentDiscretizedRotation(currentRotation) ==
    SwitchOverDir(Floor(RDiv(getRadiansZeroTo2pi(RAdd(currentRotation, Q(1, 2))),
                             getRadiansZeroTo2pi(I(1)))))

\* Polygon::translate and Polygon::rotateAroundPoint: every vertex is
\* translated, or rotated around the point.
translate(polygon, delta) ==
    [i \in DOMAIN polygon |-> translateVertex(polygon[i], delta)]

rotateAroundPoint(polygon, angle, point) ==
    [i \in DOMAIN polygon |-> rotateVertexAroundPoint(polygon[i], angle, point)]

\* getCurrentPolygon with the rotation taken around the initial translation.
getCurrentPolygonAroundStart(initialPolygon, currentTranslation, currentRotation) ==
    rotateAroundPoint(
        translate(initialPolygon, VSub(currentTranslation, m_initialTranslation)),
        RSub(currentRotation, m_initialRotation),
        m_initialTranslation)

\* Mouse::getCurrentPolygon.
getCurrentPolygon(initialPolygon, currentTranslation, currentRotation) ==
    rotateAroundPoint(
        translate(initialPolygon, VSub(currentTranslation, m_initialTranslation)),
        RSub(currentRotation, m_initialRotation),
        currentTranslation)

\* MouseParser::getBody: a square around the center, placed for the initial
\* translation and rotation.
getBody(translation, rotation) ==
    << Place(1, 1, translation, rotation), Place(1, -1, translation, rotation),
       Place(-1, -1, translation, rotation), Place(-1, 1, translation, rotation) >>

\* The step of one unit along a direction.
UnitAlong(direction) == <<Cos(direction), Sin(direction)>>

\* Wheel::getInitialPolygon and Sensor::getInitialPolygon: the wheel seen
\* from above, one unit to the front and to the back of its position; the
\* sensor, from its position one unit back.
getInitialPolygon(part) ==
    << VAdd(part.initialPosition, UnitAlong(part.initialDirection)),
       part.initialPosition,
       VSub(part.initialPosition, UnitAlong(part.initialDirection)) >>

\* m_initialBodyPolygon, and m_initialCollisionPolygon: the convex hull of
\* the body, the wheels and the sensors, which is the body when they lie
\* on it.
InitialBodyPolygon == getBody(m_initialTranslation, m_initialRotation)

InitialCollisionPolygon == InitialBodyPolygon

\* Mouse::getCurrentBodyPolygon, getCurrentCollisionPolygon,
\* getCurrentWheelPolygons and getCurrentSensorPolygons.
getCurrentBodyPolygon(currentTranslation, currentRotation) ==
    getCurrentPolygon(InitialBodyPolygon, currentTranslation, currentRotation)

getCurrentCollisionPolygon(currentTranslation, currentRotation) ==
    getCurrentPolygon(InitialCollisionPolygon, currentTranslation, currentRotation)

getCurrentWheelPolygons(currentTranslation, currentRotation) ==
    [i \in 1..Len(WheelOrder) |->
        getCurrentPolygon(getInitialPolygon(m_wheels[WheelOrder[i]]),
                          currentTranslation, currentRotation)]

getCurrentSensorPolygons(currentTranslation, currentRotation) ==
    [i \in 1..Len(SensorOrder) |->
        getCurrentPolygon(getInitialPolygon(m_sensors[SensorOrder[i]]),
                          currentTranslation, currentRotation)]

Running == ~halted

\* Lines 202-206: the mutex is taken and the sums start at zero.
UpdateLockFor(maxTicks, durations) ==
    /\ Running
    /\ updateFrame.pc = "idle"
    /\ ticks < maxTicks
    /\ CanLock(m_updateMutex)
    /\ m_updateMutex' = "update"
    /\ \E elapsed \in durations :
           updateFrame' = [IdleUpdate EXCEPT !.pc = "wheelX", !.elapsed = elapsed, !.i = 1]
    /\ atLock' = [speeds |-> Speeds(m_wheels), rotations |-> Rotations(m_wheels),
                  translation |-> m_currentTranslation,
                  rotation |-> m_currentRotation,
                  disturbed |-> FALSE]
    /\ tickPose' = <<m_currentTranslation, m_currentRotation>>
    /\ UNCHANGED <<m_initialTranslation, m_initialRotation, m_currentTranslation,
                   m_currentRotation, m_currentGyro, m_elapsedSimTime, m_wheels,
                   m_sensors, m_wheelSpeedAdjustmentFactors, m_curveTurnFactors,
                   halted, callers, teleportFrame, observed, calls, ticks,
                   committed>>
    /\ UNCHANGED <<mazeVars, ifaceVars>>

UpdateLock == UpdateLockFor(MaxTicks, Durations)

\* Lines 210-223: the wheel turns by its angular velocity times the
\* duration, and its forward rate along x is added to sumDx.
UpdateWheelX ==
    /\ Running
    /\ updateFrame.pc = "wheelX"
    /\ LET w == WheelOrder[updateFrame.i]
           turned == [m_wheels[w] EXCEPT
                         !.rotation =
                             RAdd(@, RMul(m_wheels[w].angularVelocity, updateFrame.elapsed)),
                         !.relativeRotation =
                             RAdd(@, RMul(m_wheels[w].angularVelocity, updateFrame.elapsed))]
       IN  /\ m_wheels' = [m_wheels EXCEPT ![w] = turned]
           /\ updateFrame' =
                  [updateFrame EXCEPT
                      !.pc = "wheelY",
                      !.sumDx = RAdd(@, dxCos(WheelRates(turned)[1], m_currentRotation))]
    /\ UNCHANGED <<m_initialTranslation, m_initialRotation, m_currentTranslation,
                   m_currentRotation, m_currentGyro, m_elapsedSimTime,
                   m_sensors, m_wheelSpeedAdjustmentFactors, m_curveTurnFactors,
                   m_updateMutex, halted, callers, teleportFrame, observed, calls,
                   ticks, atLock, tickPose, committed>>
    /\ UNCHANGED <<mazeVars, ifaceVars>>

\* Lines 224-225: the forward rate along y is added to sumDy and the radial
\* rate to sumDr; the loop goes to the next wheel.
UpdateWheelY ==
    /\ Running
    /\ updateFrame.pc = "wheelY"
    /\ LET ratesOfChange == WheelRates(m_wheels[WheelOrder[updateFrame.i]])
       IN  updateFrame' =
               [updateFrame EXCEPT
                   !.pc = IF updateFrame.i < Len(WheelOrder) THEN "wheelX" ELSE "gyro",
                   !.i = IF updateFrame.i < Len(WheelOrder) THEN @ + 1 ELSE 1,
                   !.sumDy = RAdd(@, dySin(ratesOfChange[1], m_currentRotation)),
                   !.sumDr = RAdd(@, ratesOfChange[2])]
    /\ UNCHANGED <<mouseFields, callers, teleportFrame, observed, calls, ticks,
                   atLock, tickPose, committed>>
    /\ UNCHANGED <<mazeVars, ifaceVars>>

\* Line 232.
UpdateGyro ==
    /\ Running
    /\ updateFrame.pc = "gyro"
    /\ m_currentGyro' = Average(updateFrame.sumDr)
    /\ updateFrame' = [updateFrame EXCEPT !.pc = "rotation"]
    /\ UNCHANGED <<m_initialTranslation, m_initialRotation, m_currentTranslation,
                   m_currentRotation, m_elapsedSimTime, m_wheels,
                   m_sensors, m_wheelSpeedAdjustmentFactors, m_curveTurnFactors,
                   m_updateMutex, halted, callers, teleportFrame, observed, calls,
                   ticks, atLock, tickPose, committed>>
    /\ UNCHANGED <<mazeVars, ifaceVars>>

\* Line 233.
UpdateRotation ==
    /\ Running
    /\ updateFrame.pc = "rotation"
    /\ m_currentRotation' =
           RAdd(m_currentRotation,
                RMul(Average(updateFrame.sumDr), updateFrame.elapsed))
    /\ tickPose' = <<tickPose[1], m_currentRotation'>>
    /\ updateFrame' = [updateFrame EXCEPT !.pc = "translation"]
    /\ UNCHANGED <<m_initialTranslation, m_initialRotation, m_currentTranslation,
                   m_currentGyro, m_elapsedSimTime, m_wheels,
                   m_sensors, m_wheelSpeedAdjustmentFactors, m_curveTurnFactors,
                   m_updateMutex, halted, callers, teleportFrame, observed, calls,
                   ticks, atLock, committed>>
    /\ UNCHANGED <<mazeVars, ifaceVars>>

\* Line 234.
UpdateTranslation ==
    /\ Running
    /\ updateFrame.pc = "translation"
    /\ m_currentTranslation' =
           VAdd(m_currentTranslation,
                <<RMul(Average(updateFrame.sumDx), updateFrame.elapsed),
                  RMul(Average(updateFrame.sumDy), updateFrame.elapsed)>>)
    /\ tickPose' = <<m_currentTranslation', tickPose[2]>>
    /\ updateFrame' = [updateFrame EXCEPT !.pc = "sensor", !.i = 1]
    /\ UNCHANGED <<m_initialTranslation, m_initialRotation, m_currentRotation,
                   m_currentGyro, m_elapsedSimTime, m_wheels,
                   m_sensors, m_wheelSpeedAdjustmentFactors, m_curveTurnFactors,
                   m_updateMutex, halted, callers, teleportFrame, observed, calls,
                   ticks, atLock, committed>>
    /\ UNCHANGED <<mazeVars, ifaceVars>>

\* Lines 236-246: the reading of one sensor is refreshed from the current
\* translation and rotation.
UpdateSensor ==
    /\ Running
    /\ updateFrame.pc = "sensor"
    /\ LET sn == SensorOrder[updateFrame.i]
       IN  m_sensors' =
               [m_sensors EXCEPT ![sn].reading =
                   getCurrentSensorPositionAndDirection(
                       m_sensors[sn], m_currentTranslation, m_currentRotation)]
    /\ updateFrame' =
           [updateFrame EXCEPT
               !.pc = IF updateFrame.i < Len(SensorOrder) THEN "sensor" ELSE "elapsed",
               !.i = IF updateFrame.i < Len(SensorOrder) THEN @ + 1 ELSE 1]
    /\ UNCHANGED <<m_initialTranslation, m_initialRotation, m_currentTranslation,
                   m_currentRotation, m_currentGyro, m_elapsedSimTime, m_wheels,
                   m_wheelSpeedAdjustmentFactors, m_curveTurnFactors,
                   m_updateMutex, halted, callers, teleportFrame, observed, calls,
                   ticks, atLock, tickPose, committed>>
    /\ UNCHANGED <<mazeVars, ifaceVars>>

\* Lines 248-250 with the elapsed time advanced by twice the duration.
UpdateUnlockTwice ==
    /\ Running
    /\ updateFrame.pc = "elapsed"
    /\ m_elapsedSimTime' =
           RAdd(m_elapsedSimTime, RMul(I(2), updateFrame.elapsed))
    /\ m_updateMutex' = "free"
    /\ updateFrame' = IdleUpdate
    /\ ticks' = ticks + 1
    /\ atLock' = NoTick
    /\ tickPose' = <<>>
    /\ UNCHANGED <<m_initialTranslation, m_initialRotation, m_currentTranslation,
                   m_currentRotation, m_currentGyro, m_wheels,
                   m_sensors, m_wheelSpeedAdjustmentFactors, m_curveTurnFactors,
                   halted, callers, teleportFrame, observed, calls, committed>>
    /\ UNCHANGED <<mazeVars, ifaceVars>>

\* Lines 248-250.
UpdateUnlock ==
    /\ Running
    /\ updateFrame.pc = "elapsed"
    /\ m_elapsedSimTime' = RAdd(m_elapsedSimTime, updateFrame.elapsed)
    /\ m_updateMutex' = "free"
    /\ updateFrame' = IdleUpdate
    /\ ticks' = ticks + 1
    /\ atLock' = NoTick
    /\ tickPose' = <<>>
    /\ UNCHANGED <<m_initialTranslation, m_initialRotation, m_currentTranslation,
                   m_currentRotation, m_currentGyro, m_wheels,
                   m_sensors, m_wheelSpeedAdjustmentFactors, m_curveTurnFactors,
                   halted, callers, teleportFrame, observed, calls, committed>>
    /\ UNCHANGED <<mazeVars, ifaceVars>>

\* ------------------------------------------------------------------------
\* The mouse: setWheelSpeeds and the movement setters, called by the
\* controller threads.
\* ------------------------------------------------------------------------

\* ASSERT_LE(lhs, rhs): the process ends unless lhs <= rhs.
ASSERT_LE(lhs, rhs) == RLe(lhs, rhs)

\* Mouse::getWheelMaxSpeed.
getWheelMaxSpeed(name) == m_wheels[name].maxAngularVelocityMagnitude

\* setWheelSpeeds without its two assertions.
SpeedUnchecked(name, speed) == TRUE

\* Lines 265-268 of setWheelSpeeds: the wheel exists and the magnitude of
\* the speed is at most the maximum of the wheel.
SpeedAccepted(name, speed) ==
    /\ name \in DOMAIN m_wheels
    /\ ASSERT_LE(RAbs(speed), getWheelMaxSpeed(name))

\* Lines 398-425 of setWheelSpeedsForMovement: whether the two ASSERT_LE
\* held, and the map handed to setWheelSpeeds.
MovementWheelSpeeds(fractionOfMaxSpeed, forwardFactor, turnFactor) ==
    LET factorMagnitude == RAdd(RAbs(forwardFactor), RAbs(turnFactor))
        normalizedForwardFactor == RDiv(forwardFactor, factorMagnitude)
        normalizedTurnFactor == RDiv(turnFactor, factorMagnitude)
        normalizedFactorMagnitude ==
            RAdd(RAbs(normalizedForwardFactor), RAbs(normalizedTurnFactor))
    IN  [ ok |-> /\ ASSERT_LE(I(0), normalizedFactorMagnitude)
                 /\ ASSERT_LE(normalizedFactorMagnitude, I(1)),
          wheelSpeeds |->
              [i \in 1..Len(WheelOrder) |->
                  LET w == WheelOrder[i]
                      adjustmentFactors == m_wheelSpeedAdjustmentFactors[w]
                  IN  <<w, RMul(RMul(m_wheels[w].maxAngularVelocityMagnitude,
                                     fractionOfMaxSpeed),
                                RAdd(RMul(normalizedForwardFactor, adjustmentFactors[1]),
                                     RMul(normalizedTurnFactor, adjustmentFactors[2])))>>] ]

\* The maps the controllers hand to setWheelSpeeds themselves: both wheels,
\* one wheel, a speed over the maximum, a wheel the mouse does not have.
WheelSpeedMaps ==
    { << <<"left", I(2)>>, <<"right", I(0)>> >>,
      << <<"left", I(-2)>>, <<"right", I(-2)>> >>,
      << <<"right", I(2)>> >>,
      << <<"left", I(1)>>, <<"right", I(3)>> >>,
      << <<"rear", I(1)>> >> }

\* The fractions of the maximum speed the controllers ask for.
Fractions == {I(1), I(2)}

\* The forward and turn factors handed to setWheelSpeedsForMovement
\* directly.
FactorPairs == {<<I(0), I(0)>>, <<I(1), I(-1)>>}

\* Line 263: the call, once it holds the mutex.
EnterSetWheelSpeeds(c, op, wheelSpeeds) ==
    /\ CanLock(m_updateMutex)
    /\ m_updateMutex' = c
    /\ callers' = [callers EXCEPT ![c] =
                      [pc |-> IF wheelSpeeds = <<>> THEN "unlock" ELSE "set",
                       op |-> op, wheelSpeeds |-> wheelSpeeds, i |-> 1,
                       done |-> callers[c].done]]
    /\ calls' = calls + 1
    /\ UNCHANGED <<m_initialTranslation, m_initialRotation, m_currentTranslation,
                   m_currentRotation, m_currentGyro, m_elapsedSimTime, m_wheels,
                   m_sensors, m_wheelSpeedAdjustmentFactors, m_curveTurnFactors,
                   halted, updateFrame, teleportFrame, observed, ticks,
                   atLock, tickPose, committed>>
    /\ UNCHANGED <<mazeVars, ifaceVars>>

\* A failed assertion: the process ends where it is.
Abort(c, op) ==
    /\ halted' = TRUE
    /\ callers' = [callers EXCEPT ![c].op = op]
    /\ UNCHANGED <<m_initialTranslation, m_initialRotation, m_currentTranslation,
                   m_currentRotation, m_currentGyro, m_elapsedSimTime, m_wheels,
                   m_sensors, m_wheelSpeedAdjustmentFactors, m_curveTurnFactors,
                   m_updateMutex, updateFrame, teleportFrame, observed, calls,
                   ticks, atLock, tickPose, committed>>
    /\ UNCHANGED <<mazeVars, ifaceVars>>

\* A controller that is in no call may make one. The controllers are alike,
\* and c1 names the one that calls first.
CanCall(c) ==
    /\ Running
    /\ c = "c2" => (callers["c1"].done > 0 \/ callers["c1"].pc # "idle")
    /\ callers[c].pc = "idle"
    /\ calls < MaxCalls

\* Mouse::setWheelSpeeds called with a map of the controller's own.
SetWheelSpeeds(c) ==
    /\ CanCall(c)
    /\ \E wheelSpeeds \in WheelSpeedMaps :
           EnterSetWheelSpeeds(c, "setWheelSpeeds", wheelSpeeds)

\* Mouse::setWheelSpeedsForMovement up to its call of setWheelSpeeds.
Movement(c, op, fractionOfMaxSpeed, forwardFactor, turnFactor) ==
    LET m == MovementWheelSpeeds(fractionOfMaxSpeed, forwardFactor, turnFactor)
    IN  IF m.ok THEN EnterSetWheelSpeeds(c, op, m.wheelSpeeds) ELSE Abort(c, op)

SetWheelSpeedsForMovement(c) ==
    /\ CanCall(c)
    /\ \E f \in Fractions, p \in FactorPairs :
           Movement(c, "setWheelSpeedsForMovement", f, p[1], p[2])

SetWheelSpeedsForMoveForward(c) ==
    /\ CanCall(c)
    /\ \E f \in Fractions :
           Movement(c, "setWheelSpeedsForMoveForward", f, I(1), I(0))

SetWheelSpeedsForTurnLeft(c) ==
    /\ CanCall(c)
    /\ \E f \in Fractions :
           Movement(c, "setWheelSpeedsForTurnLeft", f, I(0), I(1))

SetWheelSpeedsForTurnRight(c) ==
    /\ CanCall(c)
    /\ \E f \in Fractions :
           Movement(c, "setWheelSpeedsForTurnRight", f, I(0), I(-1))

SetWheelSpeedsForCurveTurnLeft(c) ==
    /\ CanCall(c)
    /\ \E f \in Fractions :
           Movement(c, "setWheelSpeedsForCurveTurnLeft", f,
                    m_curveTurnFactors[1], m_curveTurnFactors[2])

SetWheelSpeedsForCurveTurnRight(c) ==
    /\ CanCall(c)
    /\ \E f \in Fractions :
           Movement(c, "setWheelSpeedsForCurveTurnRight", f,
                    m_curveTurnFactors[1], RMul(I(-1), m_curveTurnFactors[2]))

\* stopAllWheels with the first wheel only in its map.
StopFirstWheel(c) ==
    /\ CanCall(c)
    /\ EnterSetWheelSpeeds(c, "stopAllWheels", << <<WheelOrder[1], I(0)>> >>)

\* Mouse::stopAllWheels.
StopAllWheels(c) ==
    /\ CanCall(c)
    /\ EnterSetWheelSpeeds(c, "stopAllWheels",
                           [i \in 1..Len(WheelOrder) |-> <<WheelOrder[i], I(0)>>])

\* Lines 264-270: one pair of the map. The wheel takes the speed unless an
\* assertion fails.
SetWheelSpeedsWheel(c) ==
    /\ Running
    /\ callers[c].pc = "set"
    /\ LET pair == callers[c].wheelSpeeds[callers[c].i]
       IN  IF SpeedAccepted(pair[1], pair[2])
           THEN /\ m_wheels' = [m_wheels EXCEPT ![pair[1]].angularVelocity = pair[2]]
                /\ callers' =
                       [callers EXCEPT
                           ![c].pc = IF callers[c].i < Len(callers[c].wheelSpeeds)
                                     THEN "set" ELSE "unlock",
                           ![c].i = @ + 1]
                /\ UNCHANGED halted
           ELSE /\ halted' = TRUE
                /\ UNCHANGED <<m_wheels, callers>>
    /\ UNCHANGED <<m_initialTranslation, m_initialRotation, m_currentTranslation,
                   m_currentRotation, m_currentGyro, m_elapsedSimTime,
                   m_sensors, m_wheelSpeedAdjustmentFactors, m_curveTurnFactors,
                   m_updateMutex, updateFrame, teleportFrame, observed, calls,
                   ticks, atLock, tickPose, committed>>
    /\ UNCHANGED <<mazeVars, ifaceVars>>

\* The speeds after a map is applied to them.
Applied(speeds, wheelSpeeds) ==
    [w \in DOMAIN speeds |->
        IF \E i \in DOMAIN wheelSpeeds : wheelSpeeds[i][1] = w
        THEN wheelSpeeds[CHOOSE i \in DOMAIN wheelSpeeds : wheelSpeeds[i][1] = w][2]
        ELSE speeds[w]]

\* Line 271 left out: setWheelSpeeds returns holding the mutex.
SetWheelSpeedsReturnLocked(c) ==
    /\ Running
    /\ callers[c].pc = "unlock"
    /\ callers' = [callers EXCEPT ![c] = [IdleCaller EXCEPT !.done = callers[c].done + 1]]
    /\ committed' = Applied(committed, callers[c].wheelSpeeds)
    /\ UNCHANGED <<m_initialTranslation, m_initialRotation, m_currentTranslation,
                   m_currentRotation, m_currentGyro, m_elapsedSimTime, m_wheels,
                   m_sensors, m_wheelSpeedAdjustmentFactors, m_curveTurnFactors,
                   m_updateMutex, halted, updateFrame, teleportFrame, observed,
                   calls, ticks, atLock, tickPose>>
    /\ UNCHANGED <<mazeVars, ifaceVars>>

\* Line 271.
SetWheelSpeedsUnlock(c) ==
    /\ Running
    /\ callers[c].pc = "unlock"
    /\ m_updateMutex' = "free"
    /\ callers' = [callers EXCEPT ![c] = [IdleCaller EXCEPT !.done = callers[c].done + 1]]
    /\ committed' = Applied(committed, callers[c].wheelSpeeds)
    /\ UNCHANGED <<m_initialTranslation, m_initialRotation, m_currentTranslation,
                   m_currentRotation, m_currentGyro, m_elapsedSimTime, m_wheels,
                   m_sensors, m_wheelSpeedAdjustmentFactors, m_curveTurnFactors,
                   halted, updateFrame, teleportFrame, observed, calls, ticks,
                   atLock, tickPose>>
    /\ UNCHANGED <<mazeVars, ifaceVars>>

\* ------------------------------------------------------------------------
\* The mouse: teleport and the getters, which take no mutex.
\* ------------------------------------------------------------------------

\* The poses handed to teleport: the initial pose, and the center of the
\* tile to the right of the first, facing west.
TeleportTargets ==
    { <<m_initialTranslation, m_initialRotation>>,
      <<VAdd(InitialTranslation, <<RAdd(wallLength, wallWidth), I(0)>>),
        DIRECTION_TO_ANGLE("WEST")>> }

\* Line 134 of teleport.
TeleportTranslationTo(targets) ==
    /\ Running
    /\ teleportFrame.pc = "idle"
    /\ calls < MaxCalls
    /\ \E target \in targets :
           /\ m_currentTranslation' = target[1]
           /\ teleportFrame' = [pc |-> "rotation", translation |-> target[1],
                                rotation |-> target[2]]
    /\ calls' = calls + 1
    /\ atLock' = [atLock EXCEPT !.disturbed = updateFrame.pc # "idle"]
    /\ UNCHANGED <<m_initialTranslation, m_initialRotation,
                   m_currentRotation, m_currentGyro, m_elapsedSimTime, m_wheels,
                   m_sensors, m_wheelSpeedAdjustmentFactors, m_curveTurnFactors,
                   m_updateMutex, halted, updateFrame, callers, observed, ticks,
                   tickPose, committed>>
    /\ UNCHANGED <<mazeVars, ifaceVars>>

TeleportTranslation == TeleportTranslationTo(TeleportTargets)

\* Line 135 of teleport writing the initial rotation as well.
TeleportRotationAndStart ==
    /\ Running
    /\ teleportFrame.pc = "rotation"
    /\ m_currentRotation' = teleportFrame.rotation
    /\ m_initialRotation' = teleportFrame.rotation
    /\ teleportFrame' = IdleTeleport
    /\ atLock' = [atLock EXCEPT !.disturbed = updateFrame.pc # "idle"]
    /\ UNCHANGED <<m_initialTranslation, m_currentTranslation,
                   m_currentGyro, m_elapsedSimTime, m_wheels,
                   m_sensors, m_wheelSpeedAdjustmentFactors, m_curveTurnFactors,
                   m_updateMutex, halted, updateFrame, callers, observed, calls,
                   ticks, tickPose, committed>>
    /\ UNCHANGED <<mazeVars, ifaceVars>>

\* Line 135 of teleport.
TeleportRotation ==
    /\ Running
    /\ teleportFrame.pc = "rotation"
    /\ m_currentRotation' = teleportFrame.rotation
    /\ teleportFrame' = IdleTeleport
    /\ atLock' = [atLock EXCEPT !.disturbed = updateFrame.pc # "idle"]
    /\ UNCHANGED <<m_initialTranslation, m_initialRotation, m_currentTranslation,
                   m_currentGyro, m_elapsedSimTime, m_wheels,
                   m_sensors, m_wheelSpeedAdjustmentFactors, m_curveTurnFactors,
                   m_updateMutex, halted, updateFrame, callers, observed, calls,
                   ticks, tickPose, committed>>
    /\ UNCHANGED <<mazeVars, ifaceVars>>

\* A getter returns a field to its caller and writes nothing; the reader
\* keeps its position, and whether update held the mutex when it read.
Observe(seen) ==
    /\ observed' = [seen EXCEPT !.midTick = @ \/ m_updateMutex = "update"]
    /\ UNCHANGED <<mouseFields, updateFrame, callers, teleportFrame, ticks,
                   atLock, tickPose, committed>>
    /\ UNCHANGED <<mazeVars, ifaceVars>>

\* Mouse::getCurrentTranslation, the first half of a reading of the pose.
GetCurrentTranslation ==
    /\ Running
    /\ observed.pc = "idle"
    /\ calls < MaxCalls
    /\ calls' = calls + 1
    /\ Observe([observed EXCEPT !.pc = "rotation"])

\* Mouse::getCurrentRotation, the second half.
GetCurrentRotation ==
    /\ Running
    /\ observed.pc = "rotation"
    /\ UNCHANGED calls
    /\ Observe([observed EXCEPT !.pc = "idle"])

\* Mouse::readGyro.
ReadGyro ==
    /\ Running
    /\ observed.pc = "idle"
    /\ calls < MaxCalls
    /\ calls' = calls + 1
    /\ Observe(observed)

\* Mouse::readSensor.
ReadSensor ==
    /\ Running
    /\ observed.pc = "idle"
    /\ calls < MaxCalls
    /\ calls' = calls + 1
    /\ \E sn \in SensorNames : sn \in DOMAIN m_sensors /\ Observe(observed)

\* Mouse::getCurrentDiscretizedTranslation and getCurrentDiscretizedRotation:
\* the reader keeps what was read and what was returned.
GetCurrentDiscretizedTranslation ==
    /\ Running
    /\ observed.pc = "idle"
    /\ calls < MaxCalls
    /\ calls' = calls + 1
    /\ Observe([observed EXCEPT !.returned =
                   << "translation", m_currentTranslation,
                      getCurrentDiscretizedTranslation(m_currentTranslation) >>])

GetCurrentDiscretizedRotation ==
    /\ Running
    /\ observed.pc = "idle"
    /\ calls < MaxCalls
    /\ calls' = calls + 1
    /\ \E direction \in getCurrentDiscretizedRotation(m_currentRotation) :
           Observe([observed EXCEPT !.returned =
                       <<"rotation", m_currentRotation, direction>>])

\* The wheel names handed to the encoder methods: the wheels of the mouse
\* and a wheel it does not have.
EncoderNames == WheelNames \cup {"rear"}

\* ASSERT_TR(hasWheel(name)) and m_updateMutex.lock() of the encoder
\* methods: the reader holds the mutex, or the process has ended.
LockForWheel(op) ==
    /\ Running
    /\ observed.pc = "idle"
    /\ calls < MaxCalls
    /\ calls' = calls + 1
    /\ \E name \in EncoderNames :
           IF name \in DOMAIN m_wheels
           THEN /\ CanLock(m_updateMutex)
                /\ m_updateMutex' = "reader"
                /\ observed' = [observed EXCEPT !.pc = op, !.name = name]
                /\ UNCHANGED halted
           ELSE /\ halted' = TRUE
                /\ UNCHANGED <<m_updateMutex, observed>>
    /\ UNCHANGED <<m_initialTranslation, m_initialRotation, m_currentTranslation,
                   m_currentRotation, m_currentGyro, m_elapsedSimTime, m_wheels,
                   m_sensors, m_wheelSpeedAdjustmentFactors, m_curveTurnFactors,
                   updateFrame, callers, teleportFrame, ticks, atLock, tickPose,
                   committed>>
    /\ UNCHANGED <<mazeVars, ifaceVars>>

\* Lines 312-314 of Mouse::readWheelAbsoluteEncoder.
ReadWheelAbsoluteEncoder == LockForWheel("readWheelAbsoluteEncoder")

\* Lines 320-322 of Mouse::readWheelRelativeEncoder.
ReadWheelRelativeEncoder == LockForWheel("readWheelRelativeEncoder")

\* Lines 328-330 of Mouse::resetWheelRelativeEncoder.
ResetWheelRelativeEncoder == LockForWheel("resetWheelRelativeEncoder")

\* Lines 353-354 of Mouse::getElapsedSimTime.
GetElapsedSimTime ==
    /\ Running
    /\ observed.pc = "idle"
    /\ calls < MaxCalls
    /\ calls' = calls + 1
    /\ CanLock(m_updateMutex)
    /\ m_updateMutex' = "reader"
    /\ observed' = [observed EXCEPT !.pc = "getElapsedSimTime"]
    /\ UNCHANGED <<m_initialTranslation, m_initialRotation, m_currentTranslation,
                   m_currentRotation, m_currentGyro, m_elapsedSimTime, m_wheels,
                   m_sensors, m_wheelSpeedAdjustmentFactors, m_curveTurnFactors,
                   halted, updateFrame, callers, teleportFrame, ticks, atLock,
                   tickPose, committed>>
    /\ UNCHANGED <<mazeVars, ifaceVars>>

\* The rest of a method of the reader that took the mutex: the encoder or
\* the elapsed time is read, or the relative encoder is set to zero, and
\* the mutex is released.
ReaderUnlock ==
    /\ Running
    /\ observed.pc \in {"readWheelAbsoluteEncoder", "readWheelRelativeEncoder",
                        "resetWheelRelativeEncoder", "getElapsedSimTime"}
    /\ m_wheels' = IF observed.pc = "resetWheelRelativeEncoder"
                   THEN [m_wheels EXCEPT ![observed.name].relativeRotation = I(0)]
                   ELSE m_wheels
    /\ m_updateMutex' = "free"
    /\ observed' = [observed EXCEPT !.pc = "idle", !.name = ""]
    /\ UNCHANGED <<m_initialTranslation, m_initialRotation, m_currentTranslation,
                   m_currentRotation, m_currentGyro, m_elapsedSimTime,
                   m_sensors, m_wheelSpeedAdjustmentFactors, m_curveTurnFactors,
                   halted, updateFrame, callers, teleportFrame, calls, ticks,
                   atLock, tickPose, committed>>
    /\ UNCHANGED <<mazeVars, ifaceVars>>

\* The directions the mouse starts in.
InitialDirections == {"NORTH", "EAST"}

InitMouse ==
    /\ NoMazeFile
    /\ \E initialDirection \in InitialDirections : initialize(initialDirection)
    /\ NoInterface

NextMouse ==
    \/ UpdateLock
    \/ UpdateWheelX
    \/ UpdateWheelY
    \/ UpdateGyro
    \/ UpdateRotation
    \/ UpdateTranslation
    \/ UpdateSensor
    \/ UpdateUnlock
    \/ \E c \in Controllers : SetWheelSpeeds(c)
    \/ \E c \in Controllers : SetWheelSpeedsForMovement(c)
    \/ \E c \in Controllers : SetWheelSpeedsForMoveForward(c)
    \/ \E c \in Controllers : SetWheelSpeedsForTurnLeft(c)
    \/ \E c \in Controllers : SetWheelSpeedsForTurnRight(c)
    \/ \E c \in Controllers : SetWheelSpeedsForCurveTurnLeft(c)
    \/ \E c \in Controllers : SetWheelSpeedsForCurveTurnRight(c)
    \/ \E c \in Controllers : StopAllWheels(c)
    \/ \E c \in Controllers : SetWheelSpeedsWheel(c)
    \/ \E c \in Controllers : SetWheelSpeedsUnlock(c)
    \/ TeleportTranslation
    \/ TeleportRotation
    \/ GetCurrentTranslation
    \/ GetCurrentRotation
    \/ ReadGyro
    \/ ReadSensor

SpecMouse == InitMouse /\ [][NextMouse]_vars

\* ------------------------------------------------------------------------
\* The mouse driven by one controller, with every mouse file and every
\* method of the class.
\* ------------------------------------------------------------------------

\* The speeds the driver asks of the wheels.
DriveSpeeds == {I(1), I(2)}

\* The maps the driver hands to setWheelSpeeds: the left wheel at a speed
\* and the right wheel at the same speed or at its opposite.
DriveWheelSpeedMaps ==
    { << <<"left", speed>>, <<"right", RMul(I(side), speed)>> >> :
          speed \in DriveSpeeds, side \in {-1, 1} }

\* Mouse::setWheelSpeeds called by the driver.
DriveWheelSpeeds(c) ==
    /\ CanCall(c)
    /\ \E wheelSpeeds \in DriveWheelSpeedMaps :
           EnterSetWheelSpeeds(c, "setWheelSpeeds", wheelSpeeds)

InitDrive ==
    /\ NoMazeFile
    /\ \E mouseFile \in MouseFiles, initialDirection \in InitialDirections :
           initializeFrom(mouseFile, initialDirection)
    /\ NoInterface

NextDrive ==
    \/ UpdateLock
    \/ UpdateWheelX
    \/ UpdateWheelY
    \/ UpdateGyro
    \/ UpdateRotation
    \/ UpdateTranslation
    \/ UpdateSensor
    \/ UpdateUnlock
    \/ DriveWheelSpeeds("c1")
    \/ SetWheelSpeedsForMovement("c1")
    \/ SetWheelSpeedsForMoveForward("c1")
    \/ SetWheelSpeedsForTurnLeft("c1")
    \/ SetWheelSpeedsForTurnRight("c1")
    \/ SetWheelSpeedsForCurveTurnLeft("c1")
    \/ SetWheelSpeedsForCurveTurnRight("c1")
    \/ StopAllWheels("c1")
    \/ SetWheelSpeedsWheel("c1")
    \/ SetWheelSpeedsUnlock("c1")
    \/ TeleportTranslation
    \/ TeleportRotation
    \/ GetCurrentTranslation
    \/ GetCurrentRotation
    \/ ReadGyro
    \/ ReadSensor
    \/ ReadWheelAbsoluteEncoder
    \/ ReadWheelRelativeEncoder
    \/ ResetWheelRelativeEncoder
    \/ GetElapsedSimTime
    \/ ReaderUnlock

SpecDrive == InitDrive /\ [][NextDrive]_vars

\* The mouse posed: it is initialized, and then is driven by setWheelSpeeds
\* and update and is teleported.
InitPose == InitDrive

NextPose ==
    \/ UpdateLock
    \/ UpdateWheelX
    \/ UpdateWheelY
    \/ UpdateGyro
    \/ UpdateRotation
    \/ UpdateTranslation
    \/ UpdateSensor
    \/ UpdateUnlock
    \/ DriveWheelSpeeds("c1")
    \/ SetWheelSpeedsWheel("c1")
    \/ SetWheelSpeedsUnlock("c1")
    \/ TeleportTranslation
    \/ TeleportRotation

SpecPose == InitPose /\ [][NextPose]_vars

\* Most updates of the clocked mouse, and the durations the simulation
\* loop hands to them.
MaxClockTicks == 2

ClockDurations == {I(1), I(2)}

ClockUpdateLock == UpdateLockFor(MaxClockTicks, ClockDurations)

\* The mouse clocked: updates of more than one duration, among calls that
\* set the wheels turning, stop them, teleport the mouse and read from it.
InitClock ==
    /\ NoMazeFile
    /\ initialize("NORTH")
    /\ NoInterface

NextClock ==
    \/ ClockUpdateLock
    \/ UpdateWheelX
    \/ UpdateWheelY
    \/ UpdateGyro
    \/ UpdateRotation
    \/ UpdateTranslation
    \/ UpdateSensor
    \/ UpdateUnlock
    \/ SetWheelSpeedsForMoveForward("c1")
    \/ StopAllWheels("c1")
    \/ SetWheelSpeedsWheel("c1")
    \/ SetWheelSpeedsUnlock("c1")
    \/ TeleportTranslation
    \/ TeleportRotation
    \/ ReadGyro
    \/ GetElapsedSimTime
    \/ ReaderUnlock

SpecClock == InitClock /\ [][NextClock]_vars

\* The poses teleport is handed when the heading is read: tiles on either
\* side of the origin, and rotations a sixteenth of a turn apart from three
\* eighths of a turn below zero to an eighth of a turn short of a turn.
HeadingTranslations ==
    { VAdd(InitialTranslation,
           <<RMul(I(dx), RAdd(wallLength, wallWidth)),
             RMul(Q(dy, 2), RAdd(wallLength, wallWidth))>>) :
          dx \in {-1, 1}, dy \in {-1, 1} }

HeadingRotations == {Q(k, 4) : k \in -6..14}

HeadingTargets == HeadingTranslations \X HeadingRotations

HeadingTeleportTranslation == TeleportTranslationTo(HeadingTargets)

\* The mouse read by tile and heading: it is initialized facing any
\* direction, teleported, and read.
InitHeading ==
    /\ NoMazeFile
    /\ \E i \in 1..Len(DIRECTIONS) : initialize(DIRECTIONS[i])
    /\ NoInterface

NextHeading ==
    \/ HeadingTeleportTranslation
    \/ TeleportRotation
    \/ GetCurrentDiscretizedTranslation
    \/ GetCurrentDiscretizedRotation

SpecHeading == InitHeading /\ [][NextHeading]_vars

\* ------------------------------------------------------------------------
\* The mouse with the wait for the mutex: a call that takes the mutex is
\* first made, and then waits at m_updateMutex.lock() until no thread holds
\* the mutex.
\* ------------------------------------------------------------------------

\* Line 198: update is called.
UpdateCall ==
    /\ Running
    /\ updateFrame.pc = "idle"
    /\ ticks < MaxTicks
    /\ \E elapsed \in Durations :
           updateFrame' = [IdleUpdate EXCEPT !.pc = "lock", !.elapsed = elapsed]
    /\ UNCHANGED <<mouseFields, callers, teleportFrame, observed, calls, ticks,
                   atLock, tickPose, committed>>
    /\ UNCHANGED <<mazeVars, ifaceVars>>

\* Lines 202-206: update takes the mutex.
UpdateAcquire ==
    /\ Running
    /\ updateFrame.pc = "lock"
    /\ CanLock(m_updateMutex)
    /\ m_updateMutex' = "update"
    /\ updateFrame' = [updateFrame EXCEPT !.pc = "wheelX", !.i = 1]
    /\ atLock' = [speeds |-> Speeds(m_wheels), rotations |-> Rotations(m_wheels),
                  translation |-> m_currentTranslation,
                  rotation |-> m_currentRotation,
                  disturbed |-> FALSE]
    /\ tickPose' = <<m_currentTranslation, m_currentRotation>>
    /\ UNCHANGED <<m_initialTranslation, m_initialRotation, m_currentTranslation,
                   m_currentRotation, m_currentGyro, m_elapsedSimTime, m_wheels,
                   m_sensors, m_wheelSpeedAdjustmentFactors, m_curveTurnFactors,
                   halted, callers, teleportFrame, observed, calls, ticks,
                   committed>>
    /\ UNCHANGED <<mazeVars, ifaceVars>>

\* Line 262: setWheelSpeeds is called with a map.
CallSetWheelSpeeds(c, op, wheelSpeeds) ==
    /\ CanCall(c)
    /\ callers' = [callers EXCEPT ![c] =
                      [pc |-> "lock", op |-> op, wheelSpeeds |-> wheelSpeeds,
                       i |-> 1, done |-> callers[c].done]]
    /\ calls' = calls + 1
    /\ UNCHANGED <<mouseFields, updateFrame, teleportFrame, observed, ticks,
                   atLock, tickPose, committed>>
    /\ UNCHANGED <<mazeVars, ifaceVars>>

\* The map the waiting controllers hand to setWheelSpeeds themselves: it
\* names a wheel the mouse does not have. The maps of the wheels it has
\* come through setWheelSpeedsForMoveForward and stopAllWheels.
WaitingWheelSpeedMaps == { << <<"rear", I(1)>> >> }

\* The wheels whose encoders the reader asks for.
WaitingEncoderNames == {"left", "rear"}

\* Mouse::setWheelSpeeds and Mouse::stopAllWheels, called.
SetWheelSpeedsCall(c) ==
    \E wheelSpeeds \in WaitingWheelSpeedMaps :
        CallSetWheelSpeeds(c, "setWheelSpeeds", wheelSpeeds)

StopAllWheelsCall(c) ==
    CallSetWheelSpeeds(c, "stopAllWheels",
                       [i \in 1..Len(WheelOrder) |-> <<WheelOrder[i], I(0)>>])

\* Mouse::setWheelSpeedsForMoveForward, called: lines 384-427 build the
\* map, holding no mutex, and call setWheelSpeeds.
SetWheelSpeedsForMoveForwardCall(c) ==
    /\ CanCall(c)
    /\ \E f \in Fractions :
           LET m == MovementWheelSpeeds(f, I(1), I(0))
           IN  IF m.ok
               THEN CallSetWheelSpeeds(c, "setWheelSpeedsForMoveForward", m.wheelSpeeds)
               ELSE Abort(c, "setWheelSpeedsForMoveForward")

\* Line 263: setWheelSpeeds takes the mutex.
SetWheelSpeedsAcquire(c) ==
    /\ Running
    /\ callers[c].pc = "lock"
    /\ CanLock(m_updateMutex)
    /\ m_updateMutex' = c
    /\ callers' = [callers EXCEPT
                      ![c].pc = IF callers[c].wheelSpeeds = <<>> THEN "unlock" ELSE "set"]
    /\ UNCHANGED <<m_initialTranslation, m_initialRotation, m_currentTranslation,
                   m_currentRotation, m_currentGyro, m_elapsedSimTime, m_wheels,
                   m_sensors, m_wheelSpeedAdjustmentFactors, m_curveTurnFactors,
                   halted, updateFrame, teleportFrame, observed, calls, ticks,
                   atLock, tickPose, committed>>
    /\ UNCHANGED <<mazeVars, ifaceVars>>

\* The methods of the reader that take the mutex.
ReaderMethods ==
    {"readWheelAbsoluteEncoder", "readWheelRelativeEncoder",
     "resetWheelRelativeEncoder", "getElapsedSimTime"}

\* Lines 312-313, 320-321, 328-329 and 353: a method of the reader is
\* called; an encoder method asserts that the mouse has the wheel.
ReaderCall ==
    /\ Running
    /\ observed.pc = "idle"
    /\ calls < MaxCalls
    /\ calls' = calls + 1
    /\ \E op \in ReaderMethods, name \in WaitingEncoderNames :
           IF op = "getElapsedSimTime" \/ name \in DOMAIN m_wheels
           THEN /\ observed' = [observed EXCEPT
                                   !.pc = "lock",
                                   !.name = IF op = "getElapsedSimTime" THEN "" ELSE name,
                                   !.returned = <<op>>]
                /\ UNCHANGED halted
           ELSE /\ halted' = TRUE
                /\ UNCHANGED observed
    /\ UNCHANGED <<m_initialTranslation, m_initialRotation, m_currentTranslation,
                   m_currentRotation, m_currentGyro, m_elapsedSimTime, m_wheels,
                   m_sensors, m_wheelSpeedAdjustmentFactors, m_curveTurnFactors,
                   m_updateMutex, updateFrame, callers, teleportFrame, ticks,
                   atLock, tickPose, committed>>
    /\ UNCHANGED <<mazeVars, ifaceVars>>

\* Lines 314, 322, 330 and 354: the method takes the mutex.
ReaderAcquire ==
    /\ Running
    /\ observed.pc = "lock"
    /\ CanLock(m_updateMutex)
    /\ m_updateMutex' = "reader"
    /\ observed' = [observed EXCEPT !.pc = observed.returned[1]]
    /\ UNCHANGED <<m_initialTranslation, m_initialRotation, m_currentTranslation,
                   m_currentRotation, m_currentGyro, m_elapsedSimTime, m_wheels,
                   m_sensors, m_wheelSpeedAdjustmentFactors, m_curveTurnFactors,
                   halted, updateFrame, callers, teleportFrame, calls, ticks,
                   atLock, tickPose, committed>>
    /\ UNCHANGED <<mazeVars, ifaceVars>>

\* What the tick thread, a controller and the reader do once they hold the
\* mutex.
UpdateHolding ==
    \/ UpdateWheelX
    \/ UpdateWheelY
    \/ UpdateGyro
    \/ UpdateRotation
    \/ UpdateTranslation
    \/ UpdateSensor
    \/ UpdateUnlock

SetWheelSpeedsHolding(c) == SetWheelSpeedsWheel(c) \/ SetWheelSpeedsUnlock(c)

InitWaiting == InitClock

NextWaiting ==
    \/ UpdateCall
    \/ UpdateAcquire
    \/ UpdateHolding
    \/ \E c \in Controllers :
          \/ SetWheelSpeedsCall(c)
          \/ SetWheelSpeedsForMoveForwardCall(c)
          \/ StopAllWheelsCall(c)
          \/ SetWheelSpeedsAcquire(c)
          \/ SetWheelSpeedsHolding(c)
    \/ ReaderCall
    \/ ReaderAcquire
    \/ ReaderUnlock

\* update holds the mutex: one of the steps of UpdateHolding can be taken.
UpdateHoldsTheMutex == Running /\ updateFrame.pc \notin {"idle", "lock"}

\* Fair scheduling: a thread that holds the mutex goes on, and a thread
\* that waits for the mutex takes it if it is free again and again. The
\* first conjunct is WF_vars(UpdateHolding), with ENABLED <<UpdateHolding>>_vars
\* written as the state predicate it equals.
FairScheduling ==
    /\ ([]<>~UpdateHoldsTheMutex) \/ ([]<><<UpdateHolding>>_vars)
    /\ SF_vars(UpdateAcquire)
    /\ \A c \in Controllers :
           WF_vars(SetWheelSpeedsHolding(c)) /\ SF_vars(SetWheelSpeedsAcquire(c))
    /\ WF_vars(ReaderUnlock)
    /\ SF_vars(ReaderAcquire)

SpecWaiting == InitWaiting /\ [][NextWaiting]_vars /\ FairScheduling

\* ------------------------------------------------------------------------
\* The MouseInterface: the methods of the class by group, and the guard
\* each group puts before its methods.
\* ------------------------------------------------------------------------

AnyInterfaceMethods ==
    { "debug", "info", "warn", "error", "getRandom", "millis", "delay", "quit",
      "setTileColor", "clearTileColor", "clearAllTileColor",
      "setTileText", "clearTileText", "clearAllTileText",
      "declareWall", "undeclareWall", "setTileFogginess",
      "declareTileDistance", "undeclareTileDistance", "resetPosition",
      "inputButtonPressed", "acknowledgeInputButtonPressed" }

\* The continuous group with moveForward listed in it as well.
ContinuousAndMoveForward ==
    { "getWheelMaxSpeed", "setWheelSpeed", "getWheelEncoderTicksPerRevolution",
      "readWheelEncoder", "resetWheelEncoder", "readSensor", "readGyro",
      "moveForward" }

ContinuousInterfaceMethods ==
    { "getWheelMaxSpeed", "setWheelSpeed", "getWheelEncoderTicksPerRevolution",
      "readWheelEncoder", "resetWheelEncoder", "readSensor", "readGyro" }

DiscreteInterfaceMethods ==
    { "wallFront", "wallRight", "wallLeft", "moveForward", "turnLeft",
      "turnRight", "turnAround" }

OmniscienceMethods ==
    { "currentXTile", "currentYTile", "currentDirection", "currentXPosMeters",
      "currentYPosMeters", "currentRotationDegrees" }

InterfaceTypes == {"DISCRETE", "CONTINUOUS"}

\* ensureContinuousInterface, ensureDiscreteInterface and
\* ensureAllowOmniscience: whether the guard lets the calling method go on.
ensureContinuousInterface == options.interfaceType = "CONTINUOUS"

ensureDiscreteInterface == options.interfaceType = "DISCRETE"

ensureAllowOmniscience == options.allowOmniscience

\* How the guards of a method end.
Outcome(method) ==
    IF method \in ContinuousInterfaceMethods /\ ~ensureContinuousInterface
        THEN "WrongInterfaceType"
    ELSE IF method \in DiscreteInterfaceMethods /\ ~ensureDiscreteInterface
        THEN "WrongInterfaceType"
    ELSE IF method \in OmniscienceMethods /\ ~ensureAllowOmniscience
        THEN "OmniscienceForbidden"
    ELSE "ok"

\* The speeds handed to setWheelSpeed.
InterfaceSpeeds == {I(-2), I(0), I(1), I(2)}

\* The rotation brought back to the four quarter turns of a full turn.
ZeroToFullTurn(rotation) == I(rotation.n % 4)

\* The tile a translation lies in, along one axis.
TileOf(coordinate) == coordinate.n \div (RAdd(wallLength, wallWidth).n * coordinate.d)

\* The pose a discrete method snaps the mouse to: a tile ahead if the maze
\* has one there, or a turn on the spot.
Snapped(method) ==
    LET ahead == VAdd(m_currentTranslation,
                      <<RMul(RAdd(wallLength, wallWidth), Cos(m_currentRotation)),
                        RMul(RAdd(wallLength, wallWidth), Sin(m_currentRotation))>>)
        inside == /\ ahead[1].n > 0 /\ TileOf(ahead[1]) <= MaxCoord
                  /\ ahead[2].n > 0 /\ TileOf(ahead[2]) <= MaxCoord
        turn == CASE method = "turnLeft"   -> 1
                  [] method = "turnRight"  -> 3
                  [] method = "turnAround" -> 2
                  [] OTHER                 -> 0
    IN  <<IF method = "moveForward" /\ inside THEN ahead ELSE m_currentTranslation,
          ZeroToFullTurn(RAdd(m_currentRotation, I(turn)))>>

\* A method is called: the outcome is kept, and the mouse is as the call
\* leaves it.
Called(method, translation, rotation, wheels) ==
    /\ Running
    /\ calls < MaxCalls
    /\ calls' = calls + 1
    /\ lastCall' = [op |-> method, outcome |-> Outcome(method)]
    /\ m_currentTranslation' = translation
    /\ m_currentRotation' = rotation
    /\ m_wheels' = wheels
    /\ UNCHANGED <<m_initialTranslation, m_initialRotation, m_currentGyro,
                   m_elapsedSimTime, m_sensors, m_wheelSpeedAdjustmentFactors,
                   m_curveTurnFactors, m_updateMutex, halted>>
    /\ UNCHANGED <<updateFrame, callers, teleportFrame, observed, ticks, atLock,
                   tickPose, committed>>
    /\ UNCHANGED <<mazeVars, options>>

Untouched(method) ==
    Called(method, m_currentTranslation, m_currentRotation, m_wheels)

\* A method of the any-interface group; resetPosition teleports the mouse
\* to its initial pose.
CallAnyInterfaceMethod ==
    \E method \in AnyInterfaceMethods :
        IF method = "resetPosition"
        THEN Called(method, m_initialTranslation, m_initialRotation, m_wheels)
        ELSE Untouched(method)

\* A method of the continuous group; setWheelSpeed sets the speed of one
\* wheel.
CallContinuousInterfaceMethod ==
    \E method \in ContinuousInterfaceMethods :
        IF method = "setWheelSpeed" /\ Outcome(method) = "ok"
        THEN \E name \in DOMAIN m_wheels, rpm \in InterfaceSpeeds :
                 Called(method, m_currentTranslation, m_currentRotation,
                        [m_wheels EXCEPT ![name].angularVelocity = rpm])
        ELSE Untouched(method)

\* A method of the discrete group; the moves and turns snap the pose.
CallDiscreteInterfaceMethod ==
    \E method \in DiscreteInterfaceMethods :
        IF Outcome(method) = "ok"
        THEN Called(method, Snapped(method)[1], Snapped(method)[2], m_wheels)
        ELSE Untouched(method)

\* A method of the omniscience group.
CallOmniscienceMethod ==
    \E method \in OmniscienceMethods : Untouched(method)

InitIface ==
    /\ NoMazeFile
    /\ \E initialDirection \in Direction : initialize(initialDirection)
    /\ options \in [interfaceType : InterfaceTypes, allowOmniscience : BOOLEAN]
    /\ lastCall = [op |-> "none", outcome |-> "none"]

NextIface ==
    \/ CallAnyInterfaceMethod
    \/ CallContinuousInterfaceMethod
    \/ CallDiscreteInterfaceMethod
    \/ CallOmniscienceMethod

SpecIface == InitIface /\ [][NextIface]_vars


\* ------------------------------------------------------------------------
\* The numeric maze file: what the specification says of it.
\* ------------------------------------------------------------------------

\* The tokens of every line of a file.
RECURSIVE Rows(_)
Rows(f) == IF f = <<>> THEN <<>> ELSE <<tokenize(Head(f))>> \o Rows(Tail(f))

\* A line of exactly six integer tokens, and its i-th value.
SixInts(r) ==
    /\ Len(r) = 6
    /\ \A i \in 1..6 : isInt(r[i])

Val(r, i) == strToInt(r[i])

BinaryWalls(r) == \A i \in 3..6 : Val(r, i) \in {0, 1}

\* Record b may follow record a: the next tile of the column, or the first
\* tile of the next column.
Follows(a, b) ==
    \/ Val(b, 1) = Val(a, 1) /\ Val(b, 2) = Val(a, 2) + 1
    \/ Val(b, 1) = Val(a, 1) + 1 /\ Val(b, 2) = 0

\* The record grammar of the numeric form, over the tokens of the lines.
Grammar(rs) ==
    /\ \A i \in 1..Len(rs) : SixInts(rs[i]) /\ BinaryWalls(rs[i])
    /\ Val(rs[1], 1) = 0 /\ Val(rs[1], 2) = 0
    /\ \A i \in 2..Len(rs) : Follows(rs[i - 1], rs[i])

\* Sorted by x, then by y, with no (x, y) twice.
StrictlySorted(rs) ==
    \A i, j \in 1..Len(rs) :
        i < j => \/ Val(rs[i], 1) < Val(rs[j], 1)
                 \/ Val(rs[i], 1) = Val(rs[j], 1) /\ Val(rs[i], 2) < Val(rs[j], 2)

Validated == mpc \in {"checked", "loaded", "failed"} /\ file # <<>>

\* C1: isMazeFileNumType accepts a non-empty file if and only if every line
\* has exactly six integer tokens, the last four of them 0 or 1, the first
\* record is (0,0) and every later record is the next tile of the column of
\* the record before it or the first tile of the next column; so an
\* accepted file is sorted by x then y and repeats no (x,y).
C1_AcceptsExactlyTheGrammar ==
    Validated =>
        LET rs == Rows(file)
        IN  /\ verdict.ok <=> Grammar(rs)
            /\ verdict.ok => StrictlySorted(rs)

\* An accepted hand-written file whose columns differ in height: two tiles
\* in column 0, one in column 1.
C1_Witness ==
    /\ mpc = "checked"
    /\ fileFrom = "editor"
    /\ verdict.ok
    /\ Len(file) = 3
    /\ Val(Rows(file)[2], 1) = 0
    /\ Val(Rows(file)[3], 1) = 1

\* A maze that is rectangular and has a tile.
WellFormed(m) == Len(m) >= 1 /\ Len(m[1]) >= 1 /\ IsRectangular(m)

\* C5: saving a rectangular well-formed maze in the numeric format and
\* loading the written file yields a grid equal to the maze: the same
\* columns, the same heights, the same walls at every (x,y).
C5_RoundTrip ==
    (fileFrom = "save" /\ mpc \in {"loaded", "failed"} /\ WellFormed(maze))
        => (mpc = "loaded" /\ loaded = maze)

\* A two by two maze has been saved and loaded.
C5_Witness ==
    /\ fileFrom = "save"
    /\ mpc = "loaded"
    /\ WellFormed(maze)
    /\ Len(maze) = 2
    /\ Len(maze[1]) = 2
    /\ Len(file) = 4

\* The tiles of the columns before column x.
RECURSIVE TilesBefore(_, _)
TilesBefore(m, x) == IF x <= 1 THEN 0 ELSE TilesBefore(m, x - 1) + Len(m[x - 1])

Bit(wall) == IF wall THEN 1 ELSE 0

\* A grid with a column, every column with a tile.
HasTilesInEveryColumn(m) == Len(m) >= 1 /\ \A x \in 1..Len(m) : Len(m[x]) >= 1

\* C22: for every grid with at least one column in which every column has
\* at least one tile, rectangular or not, saveMazeFileNumType writes
\* exactly one record per tile, x ascending and then y ascending, each
\* record being x, y and the walls NORTH, EAST, SOUTH, WEST as 0 or 1, and
\* isMazeFileNumType accepts the written file.
C22_SavedFileIsOneRecordPerTile ==
    (fileFrom = "save" /\ HasTilesInEveryColumn(maze)) =>
        /\ Len(file) = TilesBefore(maze, Len(maze) + 1)
        /\ \A x \in 1..Len(maze) : \A y \in 1..Len(maze[x]) :
               LET r == tokenize(file[TilesBefore(maze, x) + y])
               IN  /\ SixInts(r)
                   /\ [i \in 1..6 |-> Val(r, i)] =
                          << x - 1, y - 1,
                             Bit(maze[x][y]["NORTH"]), Bit(maze[x][y]["EAST"]),
                             Bit(maze[x][y]["SOUTH"]), Bit(maze[x][y]["WEST"]) >>
        /\ isMazeFileNumType(file).ok
        /\ mpc \in {"checked", "loaded", "failed"} => verdict.ok

\* A maze of two columns, the first taller than the second, has been saved
\* and its file checked.
C22_Witness ==
    /\ fileFrom = "save"
    /\ mpc = "checked"
    /\ verdict.ok
    /\ Len(maze) = 2
    /\ Len(maze[1]) = 2
    /\ Len(maze[2]) = 1
    /\ maze[1][1] # maze[1][2]
    /\ Len(file) = 3

\* C6: in every maze loadMaze returns, the wall between two edge-adjacent
\* tiles is the same seen from either tile.
C6_LoadedWallsSymmetric ==
    mpc = "loaded" =>
        \A x \in 1..Len(loaded) : \A y \in 1..Len(loaded[x]) :
            /\ (x < Len(loaded) /\ y <= Len(loaded[x + 1]))
                  => loaded[x][y]["EAST"] = loaded[x + 1][y]["WEST"]
            /\ y < Len(loaded[x])
                  => loaded[x][y]["NORTH"] = loaded[x][y + 1]["SOUTH"]

\* Line i of the file breaks no rule: it is a record with binary walls, and
\* it is (0,0) if it is the first line and follows the line before it if
\* not.
LineObeys(rs, i) ==
    /\ SixInts(rs[i])
    /\ BinaryWalls(rs[i])
    /\ IF i = 1
       THEN Val(rs[1], 1) = 0 /\ Val(rs[1], 2) = 0
       ELSE SixInts(rs[i - 1]) /\ Follows(rs[i - 1], rs[i])

RECURSIVE FirstOffendingFrom(_, _)
FirstOffendingFrom(rs, i) ==
    IF i > Len(rs) \/ ~LineObeys(rs, i) THEN i ELSE FirstOffendingFrom(rs, i + 1)

FirstOffending(rs) == FirstOffendingFrom(rs, 1)

\* The file starts with a record (0,0) followed by a line of six integers
\* with x = 0 and y = 0.
StartsWithTwoOrigins(rs) ==
    /\ Len(rs) >= 2
    /\ LineObeys(rs, 1)
    /\ SixInts(rs[2])
    /\ Val(rs[2], 1) = 0 /\ Val(rs[2], 2) = 0

\* C10: a rejection names the first line, counted from 1, that breaks a
\* rule, and no later line is examined: the verdict is that of the file cut
\* after that line. A file that starts with a record (0,0) followed by a
\* line of six integers with x = 0, y = 0 is rejected for its unexpected x
\* and y values on line 2.
C10_FirstOffendingLine ==
    (Validated /\ ~verdict.ok) =>
        LET rs == Rows(file)
        IN  /\ verdict.line = FirstOffending(rs)
            /\ isMazeFileNumType(SubSeq(file, 1, verdict.line)) = verdict
            /\ StartsWithTwoOrigins(rs)
                  => (verdict.kind = "xy" /\ verdict.line = 2)

\* A file of two records (0,0) and a third line has been rejected.
C10_Witness ==
    /\ mpc = "checked"
    /\ ~verdict.ok
    /\ Len(file) = 3
    /\ StartsWithTwoOrigins(Rows(file))
    /\ verdict.line = 2

\* C11: loading the two by two example file yields a maze of 2 columns of 2
\* tiles each in which tile (0,0) has walls N=1, E=0, S=0, W=1 and the west
\* wall of tile (1,0) equals the east wall of tile (0,0) and is absent.
C11_ExampleLoadsSymmetric ==
    (mpc \in {"loaded", "failed"} /\ file = ExampleFile) =>
        /\ mpc = "loaded"
        /\ Len(loaded) = 2
        /\ \A x \in 1..2 : Len(loaded[x]) = 2
        /\ loaded[1][1] = Tile(TRUE, FALSE, FALSE, TRUE)
        /\ loaded[2][1]["WEST"] = loaded[1][1]["EAST"]
        /\ loaded[1][1]["EAST"] = FALSE

\* The tile a map file draws in column x of its row k of tiles, both
\* counted from 0 and k from the top of the file: any character but a space
\* is a wall.
MapTile(f, x, k) ==
    Tile(f[2 * k + 1][4 * x + 3] # " ", f[2 * k + 2][4 * x + 5] # " ",
         f[2 * k + 3][4 * x + 3] # " ", f[2 * k + 2][4 * x + 1] # " ")

\* The columns and the rows of tiles a map file draws.
MapWidth(f) == (Len(f[1]) - 1) \div 4

MapHeight(f) == (Len(f) - 1) \div 2

\* C14: loadMaze on a well-formed map file returns a maze whose rows are
\* reversed with respect to the file: the tile of column x at height y is
\* the tile the file draws in column x of its row y counted from the bottom,
\* so the last row of tiles of the file is at y = 0.
C14_MapFileLoadsFlipped ==
    (mpc \in {"loaded", "failed"} /\ file \in MapFiles) =>
        /\ mpc = "loaded"
        /\ Len(loaded) = MapWidth(file)
        /\ \A x \in 1..Len(loaded) :
               /\ Len(loaded[x]) = MapHeight(file)
               /\ \A y \in 1..Len(loaded[x]) :
                      loaded[x][y] = MapTile(file, x - 1, MapHeight(file) - y)

\* The lines of a file that have a character.
HasCharacter(line) == line # <<>>

NonEmptyLines(f) == SelectSeq(f, HasCharacter)

\* C15: a file that has empty lines, between two records or after the last
\* one, is accepted by isMazeFileNumType when its non-empty lines form a
\* valid record sequence.
C15_EmptyLinesAreSkipped ==
    (/\ Validated
     /\ NonEmptyLines(file) # file
     /\ NonEmptyLines(file) # <<>>
     /\ Grammar(Rows(NonEmptyLines(file)))) => verdict.ok

\* ------------------------------------------------------------------------
\* The mouse: what the specification says of it.
\* ------------------------------------------------------------------------

\* The forward and radial rates of the mouse at given wheel speeds: the
\* averages over the wheels.
RatesAt(speeds) ==
    LET rates == [i \in 1..Len(WheelOrder) |->
                    LET wheel == m_wheels[WheelOrder[i]]
                    IN  getRatesOfChange(m_initialTranslation, m_initialRotation,
                                         wheel.initialPosition, wheel.initialDirection,
                                         RMul(speeds[WheelOrder[i]], wheel.radius))]
    IN  <<Average(RSum([i \in DOMAIN rates |-> rates[i][1]])),
          Average(RSum([i \in DOMAIN rates |-> rates[i][2]]))>>

\* The translation a tick adds when it moves forward along the given
\* rotation at the speeds it found.
IncrementAlong(rotation) ==
    <<RMul(RMul(RatesAt(atLock.speeds)[1], Cos(rotation)), updateFrame.elapsed),
      RMul(RMul(RatesAt(atLock.speeds)[1], Sin(rotation)), updateFrame.elapsed)>>

\* Line 234 is executed in a tick during which teleport wrote nothing.
QuietTranslationStep ==
    /\ updateFrame.pc = "translation"
    /\ updateFrame'.pc = "sensor"
    /\ ~atLock.disturbed

\* C2 as stated: the translation increment of update is computed with the
\* cos and sin of the rotation after line 233 advanced it in the same tick.
C2_TranslationUsesNewRotation ==
    [][QuietTranslationStep =>
          m_currentTranslation' =
              VAdd(m_currentTranslation, IncrementAlong(m_currentRotation))]_vars

\* C2, corrected: the cos and sin are read in the wheel loop, before line
\* 233 advances the rotation, so the translation increment of a tick in
\* which no other thread wrote the pose is computed with the rotation held
\* when the tick began.
C2_TranslationUsesOldRotation ==
    [][QuietTranslationStep =>
          m_currentTranslation' =
              VAdd(m_currentTranslation, IncrementAlong(atLock.rotation))]_vars

\* A tick has turned the mouse and moved it, along the rotation it began
\* with, to a place the new rotation would not have led to.
C2_Witness ==
    /\ updateFrame.pc = "sensor"
    /\ ~atLock.disturbed
    /\ m_currentRotation # atLock.rotation
    /\ m_currentTranslation = VAdd(atLock.translation, IncrementAlong(atLock.rotation))
    /\ IncrementAlong(atLock.rotation) # IncrementAlong(m_currentRotation)

\* C3: in every state reached through setWheelSpeeds, the movement setters
\* and stopAllWheels, the magnitude of the angular velocity of every wheel
\* is at most the maximum of that wheel.
C3_SpeedsWithinMax ==
    \A w \in DOMAIN m_wheels :
        RLe(RAbs(m_wheels[w].angularVelocity), m_wheels[w].maxAngularVelocityMagnitude)

\* A movement setter has set its last wheel and left a wheel at its maximum.
C3_Witness ==
    \E c \in Controllers :
        /\ callers[c].pc = "unlock"
        /\ callers[c].op \notin {"setWheelSpeeds", "stopAllWheels"}
        /\ \E w \in DOMAIN m_wheels :
               RAbs(m_wheels[w].angularVelocity) = m_wheels[w].maxAngularVelocityMagnitude

\* C4: no getter reads the pose, the gyro or a sensor reading, and teleport
\* writes no part of the pose, while update holds the mutex.
C4_PoseAccessHoldsTheMutex ==
    /\ ~observed.midTick
    /\ ~atLock.disturbed

\* The tick is past its wheel loop.
PastWheelLoop == updateFrame.pc \in {"gyro", "rotation", "translation", "sensor", "elapsed"}

\* C7: within a tick every wheel has the speed it had when the tick began,
\* every wheel has turned by that speed times the duration, and once the
\* sensors are refreshed every reading is the one taken from the pose lines
\* 233-234 of the tick wrote.
C7_TickUsesCommittedSpeedsAndNewPose ==
    /\ updateFrame.pc # "idle" => Speeds(m_wheels) = atLock.speeds
    /\ PastWheelLoop =>
           \A w \in DOMAIN m_wheels :
               m_wheels[w].rotation =
                   RAdd(atLock.rotations[w], RMul(atLock.speeds[w], updateFrame.elapsed))
    /\ updateFrame.pc = "elapsed" =>
           \A sn \in DOMAIN m_sensors :
               m_sensors[sn].reading =
                   getCurrentSensorPositionAndDirection(
                       m_sensors[sn], tickPose[1], tickPose[2])

\* C8: the wheel speeds are those of the completed setWheelSpeeds calls
\* applied one after the other in the order they released the mutex,
\* whenever no call is under way; and a tick finds, keeps and uses the
\* speeds committed when it acquired the mutex.
C8_CallsAreSerialized ==
    /\ (\A c \in Controllers : callers[c].pc = "idle") => Speeds(m_wheels) = committed
    /\ updateFrame.pc # "idle" =>
           /\ atLock.speeds = committed
           /\ Speeds(m_wheels) = committed
    /\ updateFrame.pc \in {"rotation", "translation", "sensor", "elapsed"} =>
           m_currentGyro = RatesAt(committed)[2]

\* Both controllers have completed a call, and a tick has taken a gyro
\* reading other than zero from the speeds they left.
C8_Witness ==
    /\ \A c \in Controllers : callers[c].done = 1
    /\ updateFrame.pc = "rotation"
    /\ m_currentGyro # I(0)


\* ------------------------------------------------------------------------
\* The driven mouse: what the specification says of it.
\* ------------------------------------------------------------------------

\* The two-wheel differential mouse of the scenarios: the left wheel to the
\* left of the center and the right wheel as far to its right, on the line
\* across the initial heading, both rolling the way the mouse first faces
\* (EAST for a mouse that starts facing EAST).
IsDifferentialMouse ==
    /\ DOMAIN m_wheels = {"left", "right"}
    /\ \A w \in DOMAIN m_wheels :
           /\ m_wheels[w].initialDirection = m_initialRotation
           /\ m_wheels[w].initialPosition =
                  Place(0, IF w = "left" THEN 1 ELSE -1,
                        m_initialTranslation, m_initialRotation)

\* The distance of the wheels from the center, and their radius.
HalfTrack == getRho(VSub(m_initialTranslation, m_wheels["left"].initialPosition))

WheelRadius == m_wheels["left"].radius

\* An update has written the gyro, the pose and the readings and is about
\* to add its duration and return; nothing else wrote the pose meanwhile.
UpdateDone == updateFrame.pc = "elapsed" /\ ~atLock.disturbed

\* The update began with the left wheel at a speed above zero and the
\* right wheel at that speed times side.
DrivenAt(side) ==
    /\ IsDifferentialMouse
    /\ UpdateDone
    /\ RLt(I(0), atLock.speeds["left"])
    /\ atLock.speeds["right"] = RMul(I(side), atLock.speeds["left"])

\* The angle omega * r * duration / w.
TurnOfTick ==
    RMul(RDiv(RMul(atLock.speeds["left"], WheelRadius), HalfTrack),
         updateFrame.elapsed)

\* C12 as stated: with the left wheel at +omega and the right wheel at
\* -omega, one update leaves the translation unchanged and increases the
\* rotation by a positive amount.
C12_TurnInPlaceIncreasesRotation ==
    DrivenAt(-1) =>
        /\ m_currentTranslation = atLock.translation
        /\ RLt(atLock.rotation, m_currentRotation)

\* C12, corrected: with the left wheel at +omega and the right wheel at
\* -omega, one update leaves the translation unchanged and decreases the
\* rotation by omega * r * duration / w, the mean of the radial rates
\* v * sin(theta(u) - D) / |u| of the two wheels times the duration.
C12_TurnInPlaceDecreasesRotation ==
    DrivenAt(-1) =>
        /\ m_currentTranslation = atLock.translation
        /\ m_currentRotation = RSub(atLock.rotation, TurnOfTick)
        /\ RLt(m_currentRotation, atLock.rotation)

\* An update of the mouse that faces EAST, its wheels rolling EAST, the
\* left one at +1 and the right one at -1, has turned it where it stands.
C12_Witness ==
    /\ DrivenAt(-1)
    /\ m_initialRotation = DIRECTION_TO_ANGLE("EAST")
    /\ atLock.speeds["left"] = I(1)
    /\ m_currentRotation # atLock.rotation
    /\ m_currentGyro # I(0)

\* C13: with both wheels at +omega, one update leaves the rotation
\* unchanged and moves the translation by omega * r * duration along the
\* heading the update began with, which is the initial heading unless a
\* teleport changed it, and by nothing across it.
C13_StraightAlongHeading ==
    DrivenAt(1) =>
        LET distance == RMul(RMul(atLock.speeds["left"], WheelRadius),
                             updateFrame.elapsed)
            along(rotation) == <<RMul(distance, Cos(rotation)),
                                 RMul(distance, Sin(rotation))>>
        IN  /\ m_currentRotation = atLock.rotation
            /\ m_currentTranslation = VAdd(atLock.translation, along(atLock.rotation))
            /\ atLock.rotation = m_initialRotation =>
                   m_currentTranslation =
                       VAdd(atLock.translation, along(m_initialRotation))

\* An update of the mouse that faces NORTH, both wheels at +1, has moved it
\* up from its initial pose.
C13_Witness ==
    /\ DrivenAt(1)
    /\ m_initialRotation = DIRECTION_TO_ANGLE("NORTH")
    /\ atLock.rotation = m_initialRotation
    /\ atLock.translation = m_initialTranslation
    /\ atLock.speeds["left"] = I(1)
    /\ m_currentTranslation = VAdd(m_initialTranslation, <<I(0), I(2)>>)

\* The forward (k = 1) or radial (k = 2) contribution of a wheel at its
\* maximum speed, and the largest magnitude of it over the wheels.
Contribution(w, k) ==
    getRatesOfChange(m_initialTranslation, m_initialRotation,
                     m_wheels[w].initialPosition, m_wheels[w].initialDirection,
                     RMul(m_wheels[w].maxAngularVelocityMagnitude,
                          m_wheels[w].radius))[k]

LargestContribution(k) ==
    CHOOSE m \in {RAbs(Contribution(w, k)) : w \in DOMAIN m_wheels} :
        \A w \in DOMAIN m_wheels : RLe(RAbs(Contribution(w, k)), m)

\* C16: whatever the wheels, every wheel has adjustment factors a_f and
\* a_t in [-1,1], a_f its forward contribution at maximum speed over the
\* largest forward contribution of a wheel and a_t its radial contribution
\* over the largest radial contribution, also when the forward
\* contributions, or the radial contributions, of all wheels are zero.
C16_FactorsNormalized ==
    \A w \in DOMAIN m_wheels : \A k \in 1..2 :
        LET a == m_wheelSpeedAdjustmentFactors[w][k]
        IN  /\ RLe(I(-1), a)
            /\ RLe(a, I(1))
            /\ RMul(a, LargestContribution(k)) = Contribution(w, k)

\* C17: after initialize no operation of the mouse changes the initial
\* translation, the initial rotation, the wheel-speed adjustment factors,
\* the curve-turn factors, or the names of the wheels and of the sensors.
C17_InitialValuesAreKept ==
    [][/\ m_initialTranslation' = m_initialTranslation
       /\ m_initialRotation' = m_initialRotation
       /\ m_wheelSpeedAdjustmentFactors' = m_wheelSpeedAdjustmentFactors
       /\ m_curveTurnFactors' = m_curveTurnFactors
       /\ DOMAIN m_wheels' = DOMAIN m_wheels
       /\ DOMAIN m_sensors' = DOMAIN m_sensors]_vars

\* The mouse has been teleported away and turned, and what initialize
\* derived is still what it derives.
C17_Witness ==
    /\ calls = MaxCalls
    /\ teleportFrame.pc = "idle"
    /\ m_currentTranslation # m_initialTranslation
    /\ m_currentRotation # m_initialRotation
    /\ m_initialTranslation = InitialTranslation
    /\ m_wheelSpeedAdjustmentFactors =
           getWheelSpeedAdjustmentFactors(m_initialTranslation, m_initialRotation,
                                          m_wheels).factors

\* A vector turned by a whole number of quarter turns.
Turned(v, angle) ==
    CASE angle.n % 4 = 0 -> v
      [] angle.n % 4 = 1 -> <<RNeg(v[2]), v[1]>>
      [] angle.n % 4 = 2 -> <<RNeg(v[1]), RNeg(v[2])>>
      [] angle.n % 4 = 3 -> <<v[2], RNeg(v[1])>>

\* Where a point of the initial mouse is at a pose: as far from the
\* translation as it was from the initial translation, turned by the
\* rotation less the initial rotation.
CarriedTo(v, translation, rotation) ==
    VAdd(translation,
         Turned(VSub(v, m_initialTranslation), RSub(rotation, m_initialRotation)))

CarriedPolygon(polygon, translation, rotation) ==
    [i \in DOMAIN polygon |-> CarriedTo(polygon[i], translation, rotation)]

\* The current polygons at a pose are the initial polygons carried to the
\* pose, and are the initial polygons at the initial pose.
PolygonsCarried(t, r) ==
    LET body == getCurrentBodyPolygon(t, r)
        collision == getCurrentCollisionPolygon(t, r)
        wheels == getCurrentWheelPolygons(t, r)
        sensors == getCurrentSensorPolygons(t, r)
    IN  /\ body = CarriedPolygon(InitialBodyPolygon, t, r)
        /\ collision = CarriedPolygon(InitialCollisionPolygon, t, r)
        /\ \A i \in 1..Len(WheelOrder) :
               wheels[i] =
                   CarriedPolygon(getInitialPolygon(m_wheels[WheelOrder[i]]), t, r)
        /\ \A i \in 1..Len(SensorOrder) :
               sensors[i] =
                   CarriedPolygon(getInitialPolygon(m_sensors[SensorOrder[i]]), t, r)
        /\ (t = m_initialTranslation /\ r = m_initialRotation) =>
               /\ body = InitialBodyPolygon
               /\ collision = InitialCollisionPolygon
               /\ \A i \in 1..Len(WheelOrder) :
                      wheels[i] = getInitialPolygon(m_wheels[WheelOrder[i]])
               /\ \A i \in 1..Len(SensorOrder) :
                      sensors[i] = getInitialPolygon(m_sensors[SensorOrder[i]])

\* C18: at every pose the current body, collision, wheel and sensor
\* polygons are the initial polygons translated by the translation less
\* the initial translation and then rotated by the rotation less the
\* initial rotation about the translation, and at the initial pose every
\* current polygon is the initial polygon: so it is after initialize and
\* after every step that writes the translation or the rotation. The step
\* of update that refreshes a sensor reads it from the position and the
\* direction that transform gives (the direction is the initial direction
\* plus the rotation less the initial rotation).
C18_PolygonsFollowThePose ==
    /\ PolygonsCarried(m_currentTranslation, m_currentRotation)
    /\ [][/\ (<<m_currentTranslation, m_currentRotation>>' #
                 <<m_currentTranslation, m_currentRotation>>) =>
                PolygonsCarried(m_currentTranslation', m_currentRotation')
          /\ (updateFrame.pc = "sensor" /\ updateFrame' # updateFrame) =>
                LET sn == SensorOrder[updateFrame.i]
                IN  m_sensors'[sn].reading =
                        << CarriedTo(m_sensors[sn].initialPosition,
                                     m_currentTranslation, m_currentRotation),
                           RAdd(m_sensors[sn].initialDirection,
                                RSub(m_currentRotation, m_initialRotation)) >>]_vars

\* An update has refreshed the sensors of a mouse that stands a quarter
\* turn from its initial rotation and away from its initial translation.
C18_Witness ==
    /\ UpdateDone
    /\ RSub(m_currentRotation, m_initialRotation) = I(1)
    /\ m_currentTranslation # m_initialTranslation
    /\ getCurrentBodyPolygon(m_currentTranslation, m_currentRotation)
           # InitialBodyPolygon
    /\ m_sensors["front"].reading[1] # m_sensors["front"].initialPosition

\* The sums of the durations of a number of updates.
RECURSIVE PartialSums(_)
PartialSums(n) ==
    IF n = 0
    THEN {I(0)}
    ELSE {RAdd(sum, elapsed) : sum \in PartialSums(n - 1), elapsed \in ClockDurations}

\* C19: the elapsed simulated time is the sum of the durations of the
\* completed updates: it is zero after initialize, an update adds its
\* duration when it completes, no other operation changes the elapsed
\* time, and getElapsedSimTime returns a sum of the durations of the
\* completed updates, between two updates.
C19_ElapsedTimeIsTheSum ==
    /\ m_elapsedSimTime = I(0)
    /\ [](m_elapsedSimTime \in PartialSums(ticks))
    /\ [][/\ m_elapsedSimTime' =
                (IF updateFrame.pc = "elapsed" /\ updateFrame'.pc = "idle"
                 THEN RAdd(m_elapsedSimTime, updateFrame.elapsed)
                 ELSE m_elapsedSimTime)
          /\ ((observed.pc = "getElapsedSimTime" /\ observed'.pc = "idle") =>
                (/\ m_elapsedSimTime \in PartialSums(ticks)
                 /\ updateFrame.pc = "idle"))]_vars

\* getElapsedSimTime holds the mutex after two updates of different
\* durations have completed, one at least with the wheels turning.
C19_Witness ==
    /\ observed.pc = "getElapsedSimTime"
    /\ ticks = 2
    /\ m_elapsedSimTime = I(3)
    /\ calls = MaxCalls
    /\ m_currentTranslation # m_initialTranslation

AllStopped(speeds) == \A w \in DOMAIN speeds : speeds[w] = I(0)

\* C20: when stopAllWheels returns every wheel has the angular velocity
\* zero; an update that begins with all wheels at zero leaves the
\* translation, the rotation and the accumulated rotation of every wheel
\* unchanged and sets the gyro to zero, and it adds its duration to the
\* elapsed time.
C20_StoppedMouseStaysPut ==
    /\ []((UpdateDone /\ AllStopped(atLock.speeds)) =>
             /\ m_currentTranslation = atLock.translation
             /\ m_currentRotation = atLock.rotation
             /\ Rotations(m_wheels) = atLock.rotations
             /\ m_currentGyro = I(0))
    /\ [][/\ \A c \in Controllers :
                ((/\ callers[c].op = "stopAllWheels"
                  /\ callers[c].pc = "unlock"
                  /\ callers'[c].pc = "idle") => AllStopped(Speeds(m_wheels')))
          /\ ((/\ updateFrame.pc = "elapsed"
               /\ updateFrame'.pc = "idle"
               /\ AllStopped(Speeds(m_wheels))) =>
                 m_elapsedSimTime' = RAdd(m_elapsedSimTime, updateFrame.elapsed))]_vars

\* The controller has set the wheels turning, an update has moved the
\* mouse, the controller has stopped the wheels, and a second update has
\* run with the wheels at zero.
C20_Witness ==
    /\ callers["c1"].done = 2
    /\ ticks = 1
    /\ UpdateDone
    /\ AllStopped(atLock.speeds)
    /\ \A w \in DOMAIN m_wheels : m_wheels[w].rotation # I(0)
    /\ m_currentTranslation # m_initialTranslation

\* The quarter turn a direction has for its canonical angle: EAST 0 degrees,
\* NORTH 90, WEST 180, SOUTH 270.
CanonicalQuarter(direction) ==
    CASE direction = "EAST"  -> 0
      [] direction = "NORTH" -> 1
      [] direction = "WEST"  -> 2
      [] direction = "SOUTH" -> 3

\* The rotation lies, some whole turns away, from 45 degrees below the
\* canonical angle of the direction up to 45 degrees above it, the upper
\* end left out.
InSectorOf(direction, rotation) ==
    \E turns \in -2..2 :
        LET canonical == 2 * CanonicalQuarter(direction) + 8 * turns
        IN  /\ RLe(Q(canonical - 1, 2), rotation)
            /\ RLt(rotation, Q(canonical + 1, 2))

SectorsOf(rotation) ==
    {DIRECTIONS[i] : i \in {j \in 1..Len(DIRECTIONS) : InSectorOf(DIRECTIONS[j], rotation)}}

\* C21: getCurrentDiscretizedRotation returns, for every current rotation,
\* exactly one of the four directions: the one whose canonical angle is
\* nearest modulo 360 degrees, [-45, 45) giving EAST, [45, 135) NORTH,
\* [135, 225) WEST and [225, 315) SOUTH; a call returns that direction and
\* getCurrentDiscretizedTranslation returns the tile the translation lies
\* in; right after initialize with a direction the heading is that
\* direction and the tile is (0, 0).
C21_HeadingIsTheNearestDirection ==
    /\ Cardinality(SectorsOf(m_currentRotation)) = 1
    /\ getCurrentDiscretizedRotation(m_currentRotation) = SectorsOf(m_currentRotation)
    /\ (observed.returned # <<>> /\ observed.returned[1] = "rotation") =>
           InSectorOf(observed.returned[3], observed.returned[2])
    /\ (observed.returned # <<>> /\ observed.returned[1] = "translation") =>
           LET tileLength == RAdd(wallLength, wallWidth)
               at == observed.returned[2]
               tile == observed.returned[3]
           IN  \A k \in 1..2 :
                   /\ RLe(RMul(I(tile[k]), tileLength), at[k])
                   /\ RLt(at[k], RMul(I(tile[k] + 1), tileLength))
    /\ (calls = 0 /\ teleportFrame.pc = "idle") =>
           /\ \A i \in 1..Len(DIRECTIONS) :
                  m_initialRotation = DIRECTION_TO_ANGLE(DIRECTIONS[i]) =>
                      getCurrentDiscretizedRotation(m_currentRotation) = {DIRECTIONS[i]}
           /\ getCurrentDiscretizedTranslation(m_currentTranslation) = <<0, 0>>

\* The heading of a mouse teleported to 45 degrees below a whole turn, in
\* a tile left of the origin, has been read as EAST.
C21_Witness ==
    /\ observed.returned = <<"rotation", Q(7, 2), "EAST">>
    /\ m_currentRotation = Q(7, 2)
    /\ getCurrentDiscretizedTranslation(m_currentTranslation)[1] = -1

\* The thread that holds the mutex, as the positions of the calls tell it:
\* a call holds the mutex from the line after its lock() to its unlock().
HolderOfCalls ==
    (IF updateFrame.pc \notin {"idle", "lock"} THEN {"update"} ELSE {})
    \cup {c \in Controllers : callers[c].pc \in {"set", "unlock"}}
    \cup (IF observed.pc \in ReaderMethods THEN {"reader"} ELSE {})

\* The calls that are in progress.
CallsInProgress ==
    (IF updateFrame.pc # "idle" THEN {"update"} ELSE {})
    \cup {c \in Controllers : callers[c].pc # "idle"}
    \cup (IF observed.pc # "idle" THEN {"reader"} ELSE {})

InterfaceMethods ==
    AnyInterfaceMethods \cup ContinuousInterfaceMethods
        \cup DiscreteInterfaceMethods \cup OmniscienceMethods

\* The groups a method is listed in.
GroupsOf(method) ==
    {g \in {"any", "continuous", "discrete", "omniscience"} :
        \/ g = "any" /\ method \in AnyInterfaceMethods
        \/ g = "continuous" /\ method \in ContinuousInterfaceMethods
        \/ g = "discrete" /\ method \in DiscreteInterfaceMethods
        \/ g = "omniscience" /\ method \in OmniscienceMethods}

\* The method belongs to the group the interface type rules out.
InWrongGroup(method) ==
    \/ "continuous" \in GroupsOf(method) /\ options.interfaceType = "DISCRETE"
    \/ "discrete" \in GroupsOf(method) /\ options.interfaceType = "CONTINUOUS"

\* C9: every method of the MouseInterface is in exactly one group, and a
\* call of a continuous method under DISCRETE, or of a discrete method under
\* CONTINUOUS, ends in WrongInterfaceType and leaves the mouse as it was.
C9_WrongGroupFailsWithoutEffect ==
    [][/\ \A method \in InterfaceMethods : Cardinality(GroupsOf(method)) = 1
       /\ (calls' = calls + 1 /\ InWrongGroup(lastCall'.op)) =>
              /\ lastCall'.outcome = "WrongInterfaceType"
              /\ UNCHANGED mouseFields]_vars

\* setWheelSpeed was called under DISCRETE, after a moveForward that took the
\* mouse to the next tile.
C9_Witness ==
    /\ options.interfaceType = "DISCRETE"
    /\ lastCall = [op |-> "setWheelSpeed", outcome |-> "WrongInterfaceType"]
    /\ calls = 2
    /\ m_currentTranslation # m_initialTranslation

====
